---- MODULE Spec2Model ----
(***************************************************************************)
(* Zero-Music backend: the music scanner (services.MusicScanner), the      *)
(* callers of its methods, and the file system and clock around it.  The   *)
(* scanner holds one field, songs, a slice of pointers to Song objects;    *)
(* Scan rebuilds it in place, GetSongs and GetSongCount read it.  The      *)
(* scanner takes no lock, so the steps of concurrent calls interleave.     *)
(***************************************************************************)
EXTENDS Integers, Sequences, FiniteSets, TLC

\* ------------------------------------------------------------------ bounds
ConfiguredTTL == 1   \* cfg.Music.CacheTTLMinutes of this run (1..MaxAllowedCacheTTL)
HeapSize == 9        \* Song objects that can be live at once
MaxFavoriteID == 5   \* the highest id AUTOINCREMENT hands out in table favorites
MaxPlayID == 3       \* the highest id AUTOINCREMENT hands out in table play_history
MaxPosition == 4     \* the highest position AddSong gives a song

\* ------------------------------------------------------- the file system
Callers == {"c1", "c2"}
\* The caller of the runs in which one request is served at a time.
Serial == {"c1"}

Root == "."
Dirs == {"sub"}
Files == {"a.mp3", "d.flac", "sub/c.MP3"}
InitialFiles == {"a.mp3", "sub/c.MP3"}
\* The files that come and go while the server runs.
Volatile == {"d.flac"}

\* filepath.Walk visits the names of a directory in lexical order.
LexicalOrder == <<"a.mp3", "d.flac", "sub", "sub/c.MP3">>

Parent(p) == IF p = "sub/c.MP3" THEN "sub" ELSE Root

\* filepath.Ext: the suffix of the path from its last dot.
Ext(p) ==
    CASE p = "a.mp3" -> ".mp3"
      [] p = "d.flac" -> ".flac"
      [] p = "sub/c.MP3" -> ".MP3"
      [] OTHER -> ""

\* strings.ToLower on the extensions that occur.
ToLower(s) == IF s = ".MP3" THEN ".mp3" ELSE s

\* filepath.Base, then strings.TrimSuffix(fileName, ext).
TitleOf(p) ==
    CASE p = "a.mp3" -> "a"
      [] p = "d.flac" -> "d"
      [] p = "sub/c.MP3" -> "c"
      [] OTHER -> p

\* cfg.Music.SupportedFormats when the configuration file names none.
SupportedFormats == {".mp3", ".flac", ".wav", ".m4a", ".ogg"}

Mutated == "mutated"

VARIABLES
    dirExists,      \* the music directory exists (os.Stat succeeds)
    present,        \* the regular files now under the music directory
    corrupt,        \* the files whose content no tag or audio parser can read
    songs,          \* MusicScanner.songs: a sequence of pointers into heap
    heap,           \* the Song objects, by address
    pc,             \* where each caller is: "idle", "stat", "walk", "done"
    op,             \* the method the caller called, "none" when idle
    queue,          \* the paths the caller's filepath.Walk has still to visit
    ret,            \* the slice the call returned, held until the caller is done with it
    err,            \* the error the call returned
    count,          \* the number the call returned
    call,           \* history: what each call in flight met when it began
    lastGood,       \* history: the paths catalogued by the last successful Scan
    elapsed,        \* history: minutes since the last successful Scan, -1 if none
    dirChanged,     \* history: the root's mtime is newer than that Scan saw
    song,           \* package models: the Song under construction
    file,           \* the file that Song is made from: size, tag, audio frames
    stage,          \* "none", "new" (NewSong returned), "updated" (UpdateMetadata returned)
    fmtIn,          \* the argument of the last FormatDuration call
    fmtOut,         \* what it returned
    build,          \* which of its two Song sources package models is built from
    todo,           \* the files the scan in progress has still to reach
    catalog,        \* the Songs of the scan, in the order of the walk
    idLog,          \* history: <<path, size, id>> of every Song ever catalogued
    restarted,      \* history: the process has been restarted
    request,        \* the last request: handler, id, response status, what was done
    loaded,         \* the last config.Load: its file, its environment, its result
    favorites,      \* table favorites: rows id, user_id, song_id
    favoriteSeq,    \* its AUTOINCREMENT sequence
    favoriteLast,   \* history: per (user, song) the last call that returned no error
    favoriteRet,    \* the last favorites call and what it returned
    playHistory,    \* table play_history: rows id, user_id, song_id, play_duration
    playStats,      \* table play_stats: rows user_id, song_id, play_count, total_play_time
    playRet,        \* the last play statistics call and what it returned
    playlists,      \* table playlists: rows id, user_id, name
    playlistSongs,  \* table playlist_songs: rows playlist_id, song_id, position
    playlistRet,    \* the last playlist call or request and what it returned
    addOrder,       \* history: per playlist its songs in the order they were added
    adding,         \* per caller the AddSong between its SELECT and its INSERT
    mw              \* the last request through a middleware and what became of it

vars == <<dirExists, present, corrupt, songs, heap, pc, op, queue, ret, err, count, call,
          lastGood, elapsed, dirChanged, song, file, stage, fmtIn, fmtOut,
          build, todo, catalog, idLog, restarted, request, loaded,
          favorites, favoriteSeq, favoriteLast, favoriteRet,
          playHistory, playStats, playRet,
          playlists, playlistSongs, playlistRet, addOrder, adding, mw>>
scannerVars == <<dirExists, present, corrupt, songs, heap, pc, op, queue, ret, err, count,
                 call, lastGood, elapsed, dirChanged>>
songVars == <<song, file, stage, fmtIn, fmtOut>>
catalogVars == <<build, todo, catalog, idLog, restarted, request>>
favoriteVars == <<favorites, favoriteSeq, favoriteLast, favoriteRet>>
playVars == <<playHistory, playStats, playRet>>
playlistVars == <<playlists, playlistSongs, playlistRet, addOrder, adding>>
repoVars == <<favoriteVars, playVars, playlistVars, mw>>
nonRepoVars == <<scannerVars, songVars, catalogVars, loaded, mw>>
otherVars == <<songVars, catalogVars, loaded, repoVars>>

fsVars == <<dirExists, present, corrupt>>
histVars == <<lastGood, elapsed, dirChanged>>

\* ------------------------------------------------------------- the heap
ObjIds == 1..HeapSize

Range(s) == {s[i] : i \in 1..Len(s)}

\* Addresses a caller or the scanner still holds; the rest is garbage.
Live(ss, rr) == Range(ss) \cup UNION {Range(rr[c]) : c \in Callers}

Collect(h, ss, rr) == [o \in (DOMAIN h) \cap Live(ss, rr) |-> h[o]]

NewAddr(h) == CHOOSE o \in ObjIds \ DOMAIN h : \A q \in ObjIds \ DOMAIN h : o <= q

\* models.NewSong: title from the file name, the path kept as given.
NewSong(filePath) == [FilePath |-> filePath, Title |-> TitleOf(filePath)]

\* What a holder of the slice s reads through its pointers in heap h.
Deref(h, s) == [i \in 1..Len(s) |-> h[s[i]]]

PathsOf(h, s) == [i \in 1..Len(s) |-> h[s[i]].FilePath]

\* ---------------------------------------------------- the freshness policy
\* The three conditions under which a cached catalog may be served as it is.
NonEmpty == lastGood # <<>>
WithinTTL == elapsed >= 0 /\ elapsed < ConfiguredTTL
MTimeUnchanged == ~dirChanged
Fresh == NonEmpty /\ WithinTTL /\ MTimeUnchanged

InFlight(c) == pc[c] \in {"stat", "walk"}

NoCall == [fresh |-> FALSE, expired |-> FALSE, newer |-> FALSE,
           quiet |-> FALSE, changed |-> FALSE, walked |-> FALSE,
           cancelled |-> FALSE]

InitScanner ==
    /\ dirExists = TRUE
    /\ present = InitialFiles
    /\ corrupt = {}
    /\ songs = <<>>
    /\ heap = <<>>
    /\ pc = [c \in Callers |-> "idle"]
    /\ op = [c \in Callers |-> "none"]
    /\ queue = [c \in Callers |-> <<>>]
    /\ ret = [c \in Callers |-> <<>>]
    /\ err = [c \in Callers |-> "none"]
    /\ count = [c \in Callers |-> 0]
    /\ call = [c \in Callers |-> NoCall]
    /\ lastGood = <<>>
    /\ elapsed = -1
    /\ dirChanged = FALSE

\* No Song is under construction.
NoSong == [ID |-> <<>>]
NoFile == [size |-> 0]

InitSongIdle ==
    /\ song = NoSong
    /\ file = NoFile
    /\ stage = "none"
    /\ fmtIn = 0
    /\ fmtOut = <<>>

NoRequest == [handler |-> "none", id |-> <<>>, status |-> 0, passed |-> FALSE,
              lookedUp |-> FALSE, opened |-> FALSE]

InitCatalogIdle ==
    /\ todo = {}
    /\ catalog = <<>>
    /\ idLog = {}
    /\ restarted = FALSE
    /\ request = NoRequest

\* The scanner of src goes with the Song of song.go.
InitBuild == build = "song.go"

\* The tables as SQLiteProvider.Migrate creates them: empty.
InitRepo ==
    /\ favorites = {}
    /\ favoriteSeq = 0
    /\ favoriteLast = [p \in {1, 2, 3} \X {"s1", "s2"} |-> "none"]
    /\ favoriteRet = [op |-> "none"]
    /\ playHistory = {}
    /\ playStats = {}
    /\ playRet = [op |-> "none"]
    /\ playlists = {}
    /\ playlistSongs = {}
    /\ playlistRet = [op |-> "none"]
    /\ addOrder = [p \in {1, 2, 3} |-> <<>>]
    /\ adding = [c \in Callers |-> [busy |-> FALSE]]
    /\ mw = [middleware |-> "none"]

Init ==
    /\ InitScanner /\ InitSongIdle /\ InitBuild /\ InitCatalogIdle
    /\ loaded = [called |-> FALSE]
    /\ InitRepo

\* The state after user 1 and user 2 have each created a playlist.
InitPlaylists ==
    /\ InitScanner /\ InitSongIdle /\ InitBuild /\ InitCatalogIdle
    /\ loaded = [called |-> FALSE]
    /\ favorites = {}
    /\ favoriteSeq = 0
    /\ favoriteLast = [p \in {1, 2, 3} \X {"s1", "s2"} |-> "none"]
    /\ favoriteRet = [op |-> "none"]
    /\ playHistory = {}
    /\ playStats = {}
    /\ playRet = [op |-> "none"]
    /\ playlists = {[id |-> 1, user_id |-> 1, name |-> "a"],
                    [id |-> 2, user_id |-> 2, name |-> "a"]}
    /\ playlistSongs = {}
    /\ playlistRet = [op |-> "none"]
    /\ addOrder = [p \in {1, 2, 3} |-> <<>>]
    /\ adding = [c \in Callers |-> [busy |-> FALSE]]
    /\ mw = [middleware |-> "none"]

\* ------------------------------------------------------------ the walk
\* os.Lstat of a path under the music directory succeeds.
Exists(p) == dirExists /\ (p = Root \/ p \in Dirs \/ p \in present)

IsDir(p) == p = Root \/ p \in Dirs

\* readDirNames: the entries of directory d, sorted.
Names(d) == SelectSeq(LexicalOrder, LAMBDA p : Parent(p) = d /\ (p \in Dirs \/ p \in present))

Others(c) == Callers \ {c}

\* A caller calls when it has no call in flight; what an earlier call
\* returned to it is dropped.
CanCall(c) == pc[c] \in {"idle", "done"}

\* Another call begins, or the environment changes the directory: no call in
\* flight ran undisturbed.
Disturbed(rootChange) ==
    [d \in Callers |->
        IF InFlight(d)
        THEN [call[d] EXCEPT !.quiet = FALSE, !.changed = @ \/ rootChange]
        ELSE call[d]]

\* Scan, line 27: the scanner's list is replaced by an empty one.
ScanBegin(c) ==
    /\ CanCall(c)
    /\ songs' = <<>>
    /\ ret' = [ret EXCEPT ![c] = <<>>]
    /\ err' = [err EXCEPT ![c] = "none"]
    /\ count' = [count EXCEPT ![c] = 0]
    /\ heap' = Collect(heap, songs', ret')
    /\ pc' = [pc EXCEPT ![c] = "stat"]
    /\ op' = [op EXCEPT ![c] = "Scan"]
    /\ call' = [Disturbed(FALSE) EXCEPT ![c] =
                  [fresh |-> Fresh,
                   expired |-> elapsed >= ConfiguredTTL,
                   newer |-> elapsed >= 0 /\ dirChanged,
                   quiet |-> \A d \in Others(c) : ~InFlight(d),
                   changed |-> FALSE,
                   walked |-> FALSE,
                   cancelled |-> FALSE]]
    /\ UNCHANGED <<otherVars, fsVars, queue, histVars>>

\* Scan returns (nil, error).
Fail(c, e) ==
    /\ pc' = [pc EXCEPT ![c] = "done"]
    /\ queue' = [queue EXCEPT ![c] = <<>>]
    /\ ret' = [ret EXCEPT ![c] = <<>>]
    /\ err' = [err EXCEPT ![c] = e]
    /\ UNCHANGED <<otherVars, fsVars, songs, heap, op, count, call, histVars>>

\* Scan, lines 30-32: the directory does not exist.
ScanStatMissing(c) ==
    /\ pc[c] = "stat"
    /\ ~dirExists
    /\ Fail(c, "notexist")

\* ScanStat with a cache check added that looks at nothing but whether an
\* earlier Scan succeeded: the walk is skipped and the list returned as it is.
ScanStatServesCache(c) ==
    /\ pc[c] = "stat"
    /\ dirExists
    /\ IF elapsed >= 0
       THEN /\ pc' = [pc EXCEPT ![c] = "done"]
            /\ ret' = [ret EXCEPT ![c] = songs]
            /\ err' = [err EXCEPT ![c] = "ok"]
            /\ UNCHANGED <<otherVars, queue, call>>
       ELSE /\ pc' = [pc EXCEPT ![c] = "walk"]
            /\ queue' = [queue EXCEPT ![c] = <<Root>>]
            /\ call' = [call EXCEPT ![c].walked = TRUE, ![c].changed = FALSE]
            /\ UNCHANGED <<otherVars, ret, err>>
    /\ UNCHANGED <<otherVars, fsVars, songs, heap, op, count, histVars>>

\* Scan, lines 30-35: the directory exists and filepath.Walk is entered.
ScanStat(c) ==
    /\ pc[c] = "stat"
    /\ dirExists
    /\ pc' = [pc EXCEPT ![c] = "walk"]
    /\ queue' = [queue EXCEPT ![c] = <<Root>>]
    /\ call' = [call EXCEPT ![c].walked = TRUE, ![c].changed = FALSE]
    /\ UNCHANGED <<otherVars, fsVars, songs, heap, op, ret, err, count, histVars>>

\* Walk cannot lstat the next path: the callback returns the error (lines 36-38, 54-56).
ScanVisitError(c) ==
    /\ pc[c] = "walk"
    /\ queue[c] # <<>>
    /\ ~Exists(Head(queue[c]))
    /\ Fail(c, "walk")

\* Walk visits a directory: the callback skips it (lines 41-43), Walk descends.
ScanVisitDir(c) ==
    /\ pc[c] = "walk"
    /\ queue[c] # <<>>
    /\ Exists(Head(queue[c]))
    /\ IsDir(Head(queue[c]))
    /\ queue' = [queue EXCEPT ![c] = Names(Head(queue[c])) \o Tail(queue[c])]
    /\ UNCHANGED <<otherVars, fsVars, songs, heap, pc, op, ret, err, count, call, histVars>>

\* Scan, line 46: the test the callback makes on a file's path.
IsMusicFile(path) == ToLower(Ext(path)) = ".mp3"

\* Walk visits a music file: a Song is appended (lines 46-49).
ScanVisitSong(c) ==
    /\ pc[c] = "walk"
    /\ queue[c] # <<>>
    /\ Exists(Head(queue[c]))
    /\ ~IsDir(Head(queue[c]))
    /\ IsMusicFile(Head(queue[c]))
    /\ ObjIds \ DOMAIN heap # {}
    /\ LET o == NewAddr(heap) IN
         /\ heap' = [x \in DOMAIN heap \cup {o} |-> IF x = o THEN NewSong(Head(queue[c])) ELSE heap[x]]
         /\ songs' = Append(songs, o)
    /\ queue' = [queue EXCEPT ![c] = Tail(queue[c])]
    /\ UNCHANGED <<otherVars, fsVars, pc, op, ret, err, count, call, histVars>>

\* Walk visits any other file: nothing is appended.
ScanVisitOther(c) ==
    /\ pc[c] = "walk"
    /\ queue[c] # <<>>
    /\ Exists(Head(queue[c]))
    /\ ~IsDir(Head(queue[c]))
    /\ ~IsMusicFile(Head(queue[c]))
    /\ queue' = [queue EXCEPT ![c] = Tail(queue[c])]
    /\ UNCHANGED <<otherVars, fsVars, songs, heap, pc, op, ret, err, count, call, histVars>>

\* Scan, line 58: Walk is over and the scanner's own slice is returned.
ScanReturn(c) ==
    /\ pc[c] = "walk"
    /\ queue[c] = <<>>
    /\ pc' = [pc EXCEPT ![c] = "done"]
    /\ ret' = [ret EXCEPT ![c] = songs]
    /\ err' = [err EXCEPT ![c] = "ok"]
    /\ lastGood' = PathsOf(heap, songs)
    /\ elapsed' = 0
    /\ dirChanged' = call[c].changed
    /\ UNCHANGED <<otherVars, fsVars, songs, heap, op, queue, count, call>>

\* ------------------------------------------------------------ accessors
\* GetSongs, lines 62-64: the scanner's own slice is returned.
GetSongs(c) ==
    /\ CanCall(c)
    /\ pc' = [pc EXCEPT ![c] = "done"]
    /\ op' = [op EXCEPT ![c] = "GetSongs"]
    /\ ret' = [ret EXCEPT ![c] = songs]
    /\ err' = [err EXCEPT ![c] = "none"]
    /\ count' = [count EXCEPT ![c] = 0]
    /\ call' = [call EXCEPT ![c] = NoCall]
    /\ heap' = Collect(heap, songs, ret')
    /\ UNCHANGED <<otherVars, fsVars, songs, queue, histVars>>

\* GetSongCount, lines 67-69: len(s.songs).
SongCount == Len(songs)

GetSongCount(c) ==
    /\ CanCall(c)
    /\ pc' = [pc EXCEPT ![c] = "done"]
    /\ op' = [op EXCEPT ![c] = "GetSongCount"]
    /\ count' = [count EXCEPT ![c] = SongCount]
    /\ ret' = [ret EXCEPT ![c] = <<>>]
    /\ err' = [err EXCEPT ![c] = "none"]
    /\ call' = [call EXCEPT ![c] = NoCall]
    /\ heap' = Collect(heap, songs, ret')
    /\ UNCHANGED <<otherVars, fsVars, songs, queue, histVars>>

\* A caller writes to the first entry of the slice it was given.
MutateEntry(c) ==
    /\ pc[c] = "done"
    /\ ret[c] # <<>>
    /\ heap[ret[c][1]].Title # Mutated
    /\ heap' = [heap EXCEPT ![ret[c][1]].Title = Mutated]
    /\ UNCHANGED <<otherVars, fsVars, songs, pc, op, queue, ret, err, count, call, histVars>>

\* The caller is done with what the call returned and drops it.
Finish(c) ==
    /\ pc[c] = "done"
    /\ pc' = [pc EXCEPT ![c] = "idle"]
    /\ op' = [op EXCEPT ![c] = "none"]
    /\ ret' = [ret EXCEPT ![c] = <<>>]
    /\ err' = [err EXCEPT ![c] = "none"]
    /\ count' = [count EXCEPT ![c] = 0]
    /\ call' = [call EXCEPT ![c] = NoCall]
    /\ heap' = Collect(heap, songs, ret')
    /\ UNCHANGED <<otherVars, fsVars, songs, queue, histVars>>

\* ---------------------------------------------------------- environment
\* A minute passes (counted up to the TTL; the scanner reads no clock).
Tick ==
    /\ elapsed >= 0
    /\ elapsed < ConfiguredTTL
    /\ elapsed' = elapsed + 1
    /\ UNCHANGED <<otherVars, fsVars, songs, heap, pc, op, queue, ret, err, count, call, lastGood, dirChanged>>

\* A file appears; a new entry in the root directory changes the root's mtime.
AddFile(p) ==
    /\ dirExists
    /\ p \in Volatile \ present
    /\ present' = present \cup {p}
    /\ dirChanged' = (dirChanged \/ Parent(p) = Root)
    /\ call' = Disturbed(Parent(p) = Root)
    /\ UNCHANGED <<otherVars, dirExists, corrupt, songs, heap, pc, op, queue, ret, err, count, lastGood, elapsed>>

RemoveFile(p) ==
    /\ dirExists
    /\ p \in Volatile \cap present
    /\ present' = present \ {p}
    /\ dirChanged' = (dirChanged \/ Parent(p) = Root)
    /\ call' = Disturbed(Parent(p) = Root)
    /\ UNCHANGED <<otherVars, dirExists, corrupt, songs, heap, pc, op, queue, ret, err, count, lastGood, elapsed>>

\* The music directory is removed or unmounted, or comes back.
RemoveDirectory ==
    /\ dirExists
    /\ dirExists' = FALSE
    /\ call' = Disturbed(FALSE)
    /\ UNCHANGED <<otherVars, present, corrupt, songs, heap, pc, op, queue, ret, err, count, histVars>>

RestoreDirectory ==
    /\ ~dirExists
    /\ dirExists' = TRUE
    /\ call' = Disturbed(FALSE)
    /\ UNCHANGED <<otherVars, present, corrupt, songs, heap, pc, op, queue, ret, err, count, histVars>>

\* The content of an audio file is damaged: its size and its name stay, its
\* tag and its frames can no longer be parsed.
Fragile == {"a.mp3"}

CorruptFile(p) ==
    /\ dirExists
    /\ p \in (Fragile \cap present) \ corrupt
    /\ corrupt' = corrupt \cup {p}
    /\ call' = Disturbed(FALSE)
    /\ UNCHANGED <<otherVars, dirExists, present, songs, heap, pc, op, queue, ret, err, count, histVars>>

\* The client of a request goes away while its Scan runs: the request's
\* context is cancelled.  Scan is not given the context.
Cancel(c) ==
    /\ InFlight(c)
    /\ ~call[c].cancelled
    /\ call' = [call EXCEPT ![c].cancelled = TRUE]
    /\ UNCHANGED <<otherVars, fsVars, songs, heap, pc, op, queue, ret, err, count, histVars>>

\* One request is served at a time, in a directory that changes and a clock
\* that runs.
Next ==
    \/ \E c \in Serial : ScanBegin(c)
    \/ \E c \in Serial : ScanStatMissing(c)
    \/ \E c \in Serial : ScanStat(c)
    \/ \E c \in Serial : ScanVisitError(c)
    \/ \E c \in Serial : ScanVisitDir(c)
    \/ \E c \in Serial : ScanVisitSong(c)
    \/ \E c \in Serial : ScanVisitOther(c)
    \/ \E c \in Serial : ScanReturn(c)
    \/ \E c \in Serial : GetSongs(c)
    \/ \E c \in Serial : GetSongCount(c)
    \/ \E c \in Serial : MutateEntry(c)
    \/ \E c \in Serial : Finish(c)
    \/ Tick
    \/ \E p \in Files : AddFile(p)
    \/ \E p \in Files : RemoveFile(p)
    \/ RemoveDirectory
    \/ RestoreDirectory
    \/ \E p \in Files : CorruptFile(p)
    \/ \E c \in Serial : Cancel(c)

Spec == Init /\ [][Next]_vars

\* Two requests are served at once (gin runs every request in a goroutine of
\* its own), on the one scanner they share.
NextRace ==
    \/ \E c \in Callers : ScanBegin(c)
    \/ \E c \in Callers : ScanStat(c)
    \/ \E c \in Callers : ScanVisitError(c)
    \/ \E c \in Callers : ScanVisitDir(c)
    \/ \E c \in Callers : ScanVisitSong(c)
    \/ \E c \in Callers : ScanVisitOther(c)
    \/ \E c \in Callers : ScanReturn(c)
    \/ \E c \in Callers : GetSongs(c)
    \/ \E c \in Callers : GetSongCount(c)
    \/ \E c \in Callers : Finish(c)
    \/ Tick
    \/ \E p \in Files : AddFile(p)
    \/ \E p \in Files : RemoveFile(p)

SpecRace == Init /\ [][NextRace]_vars

\* ========================================================= package models
\* Go strings are modelled as sequences of one-character strings, so that
\* Base, Ext, ToLower, TrimSuffix, hex encoding and Sprintf are computed.
PathX == <<"/", "m", "/", "x", ".", "m", "p", "3">>
PathSubX == <<"/", "m", "/", "s", "/", "x", ".", "m", "p", "3">>
PathY == <<"/", "m", "/", "y", ".", "F", "L", "A", "C">>
PathZ == <<"/", "m", "/", "z", ".", "w", "a", "v">>
SongPaths == {PathX, PathSubX, PathY, PathZ}

UpperCase == <<"A", "B", "C", "D", "E", "F", "G", "H", "I", "J", "K", "L", "M",
               "N", "O", "P", "Q", "R", "S", "T", "U", "V", "W", "X", "Y", "Z">>
LowerCase == <<"a", "b", "c", "d", "e", "f", "g", "h", "i", "j", "k", "l", "m",
               "n", "o", "p", "q", "r", "s", "t", "u", "v", "w", "x", "y", "z">>
DigitChars == <<"0", "1", "2", "3", "4", "5", "6", "7", "8", "9">>
HexChars == DigitChars \o <<"a", "b", "c", "d", "e", "f">>

\* The last index of ch in s, 0 when s has none.
LastIndex(s, ch) ==
    LET I == {i \in 1..Len(s) : s[i] = ch}
    IN  IF I = {} THEN 0 ELSE CHOOSE i \in I : \A j \in I : j <= i

\* filepath.Base of a path that does not end in a separator.
filepathBase(path) ==
    IF path = <<>> THEN <<".">>
    ELSE SubSeq(path, LastIndex(path, "/") + 1, Len(path))

\* filepath.Ext: from the last dot of the last element, empty without one.
filepathExt(path) ==
    LET d == LastIndex(path, ".")
    IN  IF d > LastIndex(path, "/") THEN SubSeq(path, d, Len(path)) ELSE <<>>

stringsToLower(s) ==
    [i \in 1..Len(s) |->
        IF \E k \in 1..Len(UpperCase) : UpperCase[k] = s[i]
        THEN LowerCase[CHOOSE k \in 1..Len(UpperCase) : UpperCase[k] = s[i]]
        ELSE s[i]]

stringsTrimSuffix(s, suffix) ==
    IF Len(suffix) <= Len(s) /\ SubSeq(s, Len(s) - Len(suffix) + 1, Len(s)) = suffix
    THEN SubSeq(s, 1, Len(s) - Len(suffix))
    ELSE s

Unknown == <<"U", "n", "k", "n", "o", "w", "n">>
Mp3Format == <<".", "m", "p", "3">>
FlacFormat == <<".", "f", "l", "a", "c">>
WavFormat == <<".", "w", "a", "v">>
M4aFormat == <<".", "m", "4", "a">>
AacFormat == <<".", "a", "a", "c">>
OggFormat == <<".", "o", "g", "g">>
ZeroDuration == <<"0", ":", "0", "0">>

\* user_playlist.go lines 58-63.
SongIDBytes == 16
SongIDHexLength == SongIDBytes * 2

\* sha256.Sum256([]byte(filePath)), its first SongIDBytes bytes, for the paths
\* of the model (the values SHA-256 gives for these very strings).
sha256Sum(filePath) ==
    CASE filePath = PathX ->
           <<181, 82, 238, 130, 175, 231, 212, 227, 200, 180, 155, 95, 65, 156, 134, 174>>
      [] filePath = PathSubX ->
           <<87, 54, 59, 229, 63, 224, 89, 240, 6, 229, 170, 90, 225, 246, 87, 10>>
      [] filePath = PathY ->
           <<25, 19, 104, 236, 31, 164, 44, 50, 248, 75, 162, 62, 107, 59, 51, 84>>
      [] filePath = PathZ ->
           <<243, 169, 211, 82, 236, 38, 14, 27, 237, 60, 48, 156, 207, 2, 45, 174>>

\* hex.EncodeToString: two lowercase hexadecimal digits for every byte.
hexEncodeToString(bytes) ==
    [i \in 1..(2 * Len(bytes)) |->
        IF i % 2 = 1
        THEN HexChars[(bytes[(i + 1) \div 2] \div 16) + 1]
        ELSE HexChars[(bytes[i \div 2] % 16) + 1]]

\* user_playlist.go lines 260-263.
generateID(filePath) == hexEncodeToString(SubSeq(sha256Sum(filePath), 1, SongIDBytes))

\* song.go lines 42-46: the other generateID that package models holds.
generateID_song_go(filePath) == filepathBase(filePath)

\* ValidIDRegex, ^[a-f0-9]{32}$ (validation.go; ValidIDPattern, lines 267-269).
ValidIDRegexMatch(id) ==
    /\ Len(id) = SongIDHexLength
    /\ \A i \in 1..Len(id) : \E k \in 1..Len(HexChars) : HexChars[k] = id[i]

\* The value a string of decimal digits denotes.
DigitValue(ch) == (CHOOSE k \in 1..Len(DigitChars) : DigitChars[k] = ch) - 1

IsDigits(str) ==
    /\ str # <<>>
    /\ \A i \in 1..Len(str) : \E k \in 1..Len(DigitChars) : DigitChars[k] = str[i]

RECURSIVE ParseNat(_)
ParseNat(str) ==
    IF str = <<>> THEN 0
    ELSE 10 * ParseNat(SubSeq(str, 1, Len(str) - 1)) + DigitValue(str[Len(str)])

\* fmt.Sprintf("%d", n) and fmt.Sprintf("%02d", n) for n >= 0.
RECURSIVE Digits(_)
Digits(n) ==
    IF n < 10 THEN <<DigitChars[n + 1]>>
    ELSE Digits(n \div 10) \o <<DigitChars[(n % 10) + 1]>>

Pad2(n) == IF n < 10 THEN <<"0">> \o Digits(n) ELSE Digits(n)

\* FormatDuration with "%d" where the code has "%02d".
FormatDurationUnpadded(seconds) ==
    IF seconds <= 0 THEN ZeroDuration
    ELSE LET minutes == seconds \div 60
             secs == seconds % 60
         IN  IF minutes >= 60
             THEN Digits(minutes \div 60) \o <<":">> \o Digits(minutes % 60) \o <<":">> \o Digits(secs)
             ELSE Digits(minutes) \o <<":">> \o Digits(secs)

\* user_playlist.go lines 242-257.
FormatDuration(seconds) ==
    IF seconds <= 0 THEN ZeroDuration
    ELSE LET minutes == seconds \div 60
             secs == seconds % 60
         IN  IF minutes >= 60
             THEN Digits(minutes \div 60) \o <<":">> \o Pad2(minutes % 60) \o <<":">> \o Pad2(secs)
             ELSE Digits(minutes) \o <<":">> \o Pad2(secs)

\* NewSong with an id made from the file's size instead of its path.
NewSongIDFromSize(filePath, fileSize) ==
    [ID |-> Digits(fileSize),
     Title |-> filepathBase(filePath),
     Artist |-> Unknown,
     Album |-> Unknown,
     Duration |-> 0,
     DurationFormatted |-> ZeroDuration,
     FilePath |-> filePath,
     FileName |-> filepathBase(filePath),
     FileSize |-> fileSize,
     Format |-> stringsToLower(filepathExt(filePath)),
     HasCover |-> FALSE,
     Year |-> 0,
     Track |-> 0,
     Genre |-> <<>>]

\* user_playlist.go lines 100-133 (AddedAt, the file's mtime, is left out).
NewSong_user_playlist_go(filePath, fileSize) ==
    LET fileName == filepathBase(filePath)
        ext == filepathExt(fileName)
    IN  [ID |-> generateID(filePath),
         Title |-> stringsTrimSuffix(fileName, ext),
         Artist |-> Unknown,
         Album |-> Unknown,
         Duration |-> 0,
         DurationFormatted |-> ZeroDuration,
         FilePath |-> filePath,
         FileName |-> fileName,
         FileSize |-> fileSize,
         Format |-> stringsToLower(ext),
         HasCover |-> FALSE,
         Year |-> 0,
         Track |-> 0,
         Genre |-> <<>>]

\* song.go lines 23-39: the other NewSong that package models holds.
NewSong_song_go(filePath, fileSize) ==
    LET fileName == filepathBase(filePath)
    IN  [ID |-> generateID_song_go(filePath),
         Title |-> stringsTrimSuffix(fileName, filepathExt(fileName)),
         Artist |-> Unknown,
         Album |-> Unknown,
         Duration |-> 0,
         FilePath |-> filePath,
         FileName |-> fileName,
         FileSize |-> fileSize]

\* user_playlist.go lines 189-209: the durations of the frames the decoder
\* reads until it fails, in whole seconds; 0 when the file cannot be opened.
parseMP3Duration(s, f) == IF f.opens THEN f.frames ELSE 0

\* user_playlist.go lines 212-239.
estimateDuration(s) ==
    IF s.FileSize = 0 THEN 0
    ELSE LET bytesPerSecond ==
                 CASE s.Format = FlacFormat -> 125000
                   [] s.Format = WavFormat -> 176400
                   [] s.Format \in {M4aFormat, AacFormat} -> 24000
                   [] s.Format = OggFormat -> 25000
                   [] OTHER -> 32000
         IN  s.FileSize \div bytesPerSecond

\* user_playlist.go lines 176-186.
parseDuration(s, f) ==
    LET d == IF s.Format = Mp3Format THEN parseMP3Duration(s, f) ELSE estimateDuration(s)
    IN  [s EXCEPT !.Duration = d, !.DurationFormatted = FormatDuration(d)]

\* UpdateMetadata without the tests for empty and zero tag fields.
UpdateMetadataOverwrites(s, f) ==
    IF ~f.opens THEN s
    ELSE IF ~f.tag.readable THEN s
    ELSE LET metadata == f.tag
         IN  parseDuration(
                [s EXCEPT !.Title = metadata.Title,
                          !.Artist = metadata.Artist,
                          !.Album = metadata.Album,
                          !.Genre = metadata.Genre,
                          !.Year = metadata.Year,
                          !.Track = metadata.Track,
                          !.HasCover = metadata.Picture],
                f)

\* user_playlist.go lines 136-173.
UpdateMetadata(s, f) ==
    IF ~f.opens THEN s
    ELSE IF ~f.tag.readable THEN s
    ELSE LET metadata == f.tag
         IN  parseDuration(
                [s EXCEPT !.Title = IF metadata.Title # <<>> THEN metadata.Title ELSE @,
                          !.Artist = IF metadata.Artist # <<>> THEN metadata.Artist ELSE @,
                          !.Album = IF metadata.Album # <<>> THEN metadata.Album ELSE @,
                          !.Genre = IF metadata.Genre # <<>> THEN metadata.Genre ELSE @,
                          !.Year = IF metadata.Year # 0 THEN metadata.Year ELSE @,
                          !.Track = IF metadata.Track # 0 THEN metadata.Track ELSE @,
                          !.HasCover = metadata.Picture],
                f)

\* ------------------------------------------------- the files songs are made from
NoTag == [readable |-> FALSE, Title |-> <<>>, Artist |-> <<>>, Album |-> <<>>,
          Genre |-> <<>>, Year |-> 0, Track |-> 0, Picture |-> FALSE]
EmptyTag == [NoTag EXCEPT !.readable = TRUE]
TitleTag == [EmptyTag EXCEPT !.Title = <<"T">>, !.Year = 1999]
ArtistTag == [EmptyTag EXCEPT !.Artist = <<"A">>, !.Album = <<"B">>, !.Track = 7]
FullTag == [readable |-> TRUE, Title |-> <<"T">>, Artist |-> <<"A">>, Album |-> <<"B">>,
            Genre |-> <<"G">>, Year |-> 1999, Track |-> 7, Picture |-> TRUE]
Tags == {NoTag, EmptyTag, TitleTag, ArtistTag, FullTag}

\* File sizes in bytes, and the seconds of audio the frames of a file hold.
Sizes == {0, 23999, 250000, 635040000}
FrameSeconds == {0, 59, 3725}
\* Of a file that cannot be opened nothing but its size is seen.
FileStates ==
    {f \in [size : Sizes, opens : BOOLEAN, tag : Tags, frames : FrameSeconds] :
        ~f.opens => (f.tag = NoTag /\ f.frames = 0)}

\* The arguments FormatDuration is called with.
Seconds == {-1, 0, 9, 59, 60, 3599, 3600, 3661, 360000}

\* ------------------------------------------------- the metadata extractor
\* NewSong(filePath, fileSize) is called for a file.
CallNewSong(p, f) ==
    /\ f.frames # 0 => stringsToLower(filepathExt(p)) = Mp3Format
    /\ song' = NewSong_user_playlist_go(p, f.size)
    /\ file' = f
    /\ stage' = "new"
    /\ UNCHANGED <<scannerVars, catalogVars, loaded, repoVars, fmtIn, fmtOut>>

\* song.UpdateMetadata() is called on the Song NewSong returned.
CallUpdateMetadata ==
    /\ stage = "new"
    /\ song' = UpdateMetadata(song, file)
    /\ stage' = "updated"
    /\ UNCHANGED <<scannerVars, catalogVars, loaded, repoVars, file, fmtIn, fmtOut>>

\* FormatDuration(seconds) is called.
CallFormatDuration(seconds) ==
    /\ fmtIn' = seconds
    /\ fmtOut' = FormatDuration(seconds)
    /\ UNCHANGED <<scannerVars, catalogVars, loaded, repoVars, song, file, stage>>

NextExtractor ==
    \/ \E p \in SongPaths : \E f \in FileStates : CallNewSong(p, f)
    \/ CallUpdateMetadata
    \/ \E seconds \in Seconds : CallFormatDuration(seconds)

SpecExtractor == Init /\ [][NextExtractor]_vars

\* ====================================== the catalog of Songs and its users
Builds == {"song.go", "user_playlist.go"}

\* NewSong as the build of package models has it.
NewSongOf(b, filePath, fileSize) ==
    IF b = "song.go" THEN NewSong_song_go(filePath, fileSize)
    ELSE NewSong_user_playlist_go(filePath, fileSize)

\* filepath.Walk reaches the files of /m in this order (names sorted, the
\* directory s before x.mp3).
WalkOrder == <<PathSubX, PathX, PathY, PathZ>>
NextInWalk(T) == WalkOrder[CHOOSE i \in 1..Len(WalkOrder) :
                     /\ WalkOrder[i] \in T
                     /\ \A j \in 1..(i - 1) : WalkOrder[j] \notin T]

\* Sizes a file is found with in one scan or another.
ScanSizes == {0, 250000}

\* Scan begins on a directory holding the files T.
StartScan(T) ==
    /\ todo = {}
    /\ T # {}
    /\ todo' = T
    /\ catalog' = <<>>
    /\ request' = NoRequest
    /\ UNCHANGED <<scannerVars, songVars, loaded, repoVars, build, idLog, restarted>>

\* scanner.go lines 46-49: the walk reaches a file; an .mp3 gets a Song.
ScanFile(sz) ==
    /\ todo # {}
    /\ LET p == NextInWalk(todo)
       IN  /\ todo' = todo \ {p}
           /\ IF stringsToLower(filepathExt(p)) = Mp3Format
              THEN /\ catalog' = Append(catalog, NewSongOf(build, p, sz))
                   /\ idLog' = idLog \cup {<<p, sz, NewSongOf(build, p, sz).ID>>}
              ELSE UNCHANGED <<catalog, idLog>>
    /\ UNCHANGED <<scannerVars, songVars, loaded, repoVars, build, restarted, request>>

\* The process ends and is started again from the same binary.
Restart ==
    /\ todo = {}
    /\ catalog # <<>>
    /\ catalog' = <<>>
    /\ restarted' = TRUE
    /\ request' = NoRequest
    /\ UNCHANGED <<scannerVars, songVars, loaded, repoVars, build, todo, idLog>>

\* The ids requests arrive with.
ValidID == generateID(PathX)
AbsentID == generateID(PathZ)
UpperID == [i \in 1..Len(ValidID) |->
              IF \E k \in 1..Len(LowerCase) : LowerCase[k] = ValidID[i]
              THEN UpperCase[CHOOSE k \in 1..Len(LowerCase) : LowerCase[k] = ValidID[i]]
              ELSE ValidID[i]]
ShortID == SubSeq(ValidID, 1, Len(ValidID) - 1)
LongID == ValidID \o ValidID
NonHexID == [ValidID EXCEPT ![1] = "g"]
PathLikeID == <<".", ".", "/", "x", ".", "m", "p", "3">>
FileNameID == <<"x", ".", "m", "p", "3">>
RequestIDs == {<<>>, ValidID, AbsentID, UpperID, ShortID, LongID, NonHexID,
               PathLikeID, FileNameID}

\* errors.go lines 22-38.
ValidateSongID(id) ==
    /\ todo = {}
    /\ request' = [handler |-> "ValidateSongID",
                   id |-> id,
                   status |-> IF id = <<>> THEN 400
                              ELSE IF ~ValidIDRegexMatch(id) THEN 400
                              ELSE 0,
                   passed |-> id # <<>> /\ ValidIDRegexMatch(id),
                   lookedUp |-> FALSE,
                   opened |-> FALSE]
    /\ UNCHANGED <<scannerVars, songVars, loaded, repoVars, build, todo, catalog, idLog, restarted>>

\* stream.go lines 40-106; songs is what the handler's Scan returned.
StreamAudio(id, scanFails, opens) ==
    /\ todo = {}
    /\ LET found == \E i \in 1..Len(catalog) : catalog[i].ID = id
       IN  request' = [handler |-> "StreamAudio",
                       id |-> id,
                       status |-> IF scanFails THEN 500
                                  ELSE IF ~found THEN 404
                                  ELSE IF ~opens THEN 500
                                  ELSE 200,
                       passed |-> FALSE,
                       lookedUp |-> ~scanFails,
                       opened |-> ~scanFails /\ found /\ opens]
    /\ UNCHANGED <<scannerVars, songVars, loaded, repoVars, build, todo, catalog, idLog, restarted>>

InitCatalog ==
    /\ InitScanner
    /\ InitSongIdle
    /\ InitCatalogIdle
    /\ build \in Builds
    /\ loaded = [called |-> FALSE]
    /\ InitRepo

NextCatalog ==
    \/ \E T \in SUBSET SongPaths : StartScan(T)
    \/ \E sz \in ScanSizes : ScanFile(sz)
    \/ Restart
    \/ \E id \in RequestIDs : ValidateSongID(id)
    \/ \E id \in RequestIDs : \E scanFails, opens \in BOOLEAN : StreamAudio(id, scanFails, opens)

SpecCatalog == InitCatalog /\ [][NextCatalog]_vars

\* ========================================================= package config
\* config.go lines 11-26.
DefaultMaxRangeSize == 100 * 1024 * 1024
DefaultCacheTTLMinutes == 5
DefaultServerHost == "0.0.0.0"
DefaultServerPort == 8080
DefaultReadTimeoutSeconds == 15
DefaultWriteTimeoutSeconds == 60
DefaultIdleTimeoutSeconds == 120
DefaultShutdownTimeoutSeconds == 30
MaxAllowedRangeSize == 500 * 1024 * 1024
MaxAllowedCacheTTL == 1440
MaxAllowedTimeoutSeconds == 600
MaxAllowedShutdownTimeoutSeconds == 300
MaxPort == 65535

\* The directory determineDefaultMusicDirectory settles on when the
\* environment names none (lines 210-234), and directories of a file and of
\* the environment; all are absolute and exist.
HomeMusic == "/home/u/Music"
FileMusic == "/srv/music"
EnvMusic == "/mnt/music"

\* A directory a file names that does not exist: os.Stat fails on it.
MissingMusic == "/gone"

\* os.Stat(path) returns no error.
osStat(path) == path # MissingMusic

\* strconv.Atoi for values that fit an int: an optional sign, then digits.
Atoi(raw) ==
    LET signed == raw # <<>> /\ raw[1] \in {"+", "-"}
        digits == IF signed THEN Tail(raw) ELSE raw
    IN  IF IsDigits(digits)
        THEN [ok |-> TRUE,
              value |-> IF signed /\ raw[1] = "-" THEN 0 - ParseNat(digits)
                        ELSE ParseNat(digits)]
        ELSE [ok |-> FALSE, value |-> 0]

\* parseEnvInt with the range test of lines 157-159 left out.
parseEnvIntAnyRange(raw, min, max) ==
    IF raw = <<>> THEN [set |-> FALSE, value |-> 0]
    ELSE IF ~Atoi(raw).ok THEN [set |-> FALSE, value |-> 0]
    ELSE [set |-> TRUE, value |-> Atoi(raw).value]

\* config.go lines 148-161; raw is os.Getenv(key); set is "not nil".
parseEnvInt(raw, min, max) ==
    IF raw = <<>> THEN [set |-> FALSE, value |-> 0]
    ELSE IF ~Atoi(raw).ok THEN [set |-> FALSE, value |-> 0]
    ELSE IF Atoi(raw).value < min \/ Atoi(raw).value > max THEN [set |-> FALSE, value |-> 0]
    ELSE [set |-> TRUE, value |-> Atoi(raw).value]

\* config.go lines 208-234, for directories that exist.
determineDefaultMusicDirectory(env) ==
    IF env.Directory # "" THEN env.Directory ELSE HomeMusic

\* config.go lines 81-112.
ensureDefaults(cfg, env) ==
    [cfg EXCEPT
        !.Host = IF @ = "" THEN DefaultServerHost ELSE @,
        !.Port = IF @ = 0 THEN DefaultServerPort ELSE @,
        !.MaxRangeSize = IF @ = 0 THEN DefaultMaxRangeSize ELSE @,
        !.ReadTimeoutSeconds = IF @ <= 0 THEN DefaultReadTimeoutSeconds ELSE @,
        !.WriteTimeoutSeconds = IF @ <= 0 THEN DefaultWriteTimeoutSeconds ELSE @,
        !.IdleTimeoutSeconds = IF @ <= 0 THEN DefaultIdleTimeoutSeconds ELSE @,
        !.ShutdownTimeoutSeconds = IF @ <= 0 THEN DefaultShutdownTimeoutSeconds ELSE @,
        !.CacheTTLMinutes = IF @ <= 0 THEN DefaultCacheTTLMinutes ELSE @,
        !.Directory = IF @ = "" THEN determineDefaultMusicDirectory(env) ELSE @]

\* config.go lines 115-146; env maps each setting to the raw value of its
\* ZERO_MUSIC_ variable, empty when the variable is unset.
applyEnvOverrides(cfg0, env) ==
    LET cfg == ensureDefaults(cfg0, env)
        port == parseEnvInt(env.Port, 1, MaxPort)
        maxRange == parseEnvInt(env.MaxRangeSize, 1, MaxAllowedRangeSize)
        readTimeout == parseEnvInt(env.ReadTimeoutSeconds, 1, MaxAllowedTimeoutSeconds)
        writeTimeout == parseEnvInt(env.WriteTimeoutSeconds, 1, MaxAllowedTimeoutSeconds)
        idleTimeout == parseEnvInt(env.IdleTimeoutSeconds, 1, MaxAllowedTimeoutSeconds)
        shutdownTimeout ==
            parseEnvInt(env.ShutdownTimeoutSeconds, 1, MaxAllowedShutdownTimeoutSeconds)
        cacheTTL == parseEnvInt(env.CacheTTLMinutes, 1, MaxAllowedCacheTTL)
    IN  [cfg EXCEPT
            !.Host = IF env.Host # "" THEN env.Host ELSE @,
            !.Port = IF port.set THEN port.value ELSE @,
            !.MaxRangeSize = IF maxRange.set THEN maxRange.value ELSE @,
            !.ReadTimeoutSeconds = IF readTimeout.set THEN readTimeout.value ELSE @,
            !.WriteTimeoutSeconds = IF writeTimeout.set THEN writeTimeout.value ELSE @,
            !.IdleTimeoutSeconds = IF idleTimeout.set THEN idleTimeout.value ELSE @,
            !.ShutdownTimeoutSeconds =
                IF shutdownTimeout.set THEN shutdownTimeout.value ELSE @,
            !.Directory = IF env.Directory # "" THEN env.Directory ELSE @,
            !.CacheTTLMinutes = IF cacheTTL.set THEN cacheTTL.value ELSE @]

\* validateConfig with the port test of lines 165-167 left out.
validateConfigAnyPort(cfg) ==
    /\ ~(cfg.MaxRangeSize < 1 \/ cfg.MaxRangeSize > MaxAllowedRangeSize)
    /\ ~(cfg.ReadTimeoutSeconds < 1 \/ cfg.ReadTimeoutSeconds > MaxAllowedTimeoutSeconds)
    /\ ~(cfg.WriteTimeoutSeconds < 1 \/ cfg.WriteTimeoutSeconds > MaxAllowedTimeoutSeconds)
    /\ ~(cfg.IdleTimeoutSeconds < 1 \/ cfg.IdleTimeoutSeconds > MaxAllowedTimeoutSeconds)
    /\ ~(cfg.ShutdownTimeoutSeconds < 1
           \/ cfg.ShutdownTimeoutSeconds > MaxAllowedShutdownTimeoutSeconds)
    /\ ~(cfg.CacheTTLMinutes < 1 \/ cfg.CacheTTLMinutes > MaxAllowedCacheTTL)
    /\ cfg.Directory # ""
    /\ osStat(cfg.Directory)

\* config.go lines 164-193; TRUE is a nil error.
validateConfig(cfg) ==
    /\ ~(cfg.Port < 1 \/ cfg.Port > MaxPort)
    /\ ~(cfg.MaxRangeSize < 1 \/ cfg.MaxRangeSize > MaxAllowedRangeSize)
    /\ ~(cfg.ReadTimeoutSeconds < 1 \/ cfg.ReadTimeoutSeconds > MaxAllowedTimeoutSeconds)
    /\ ~(cfg.WriteTimeoutSeconds < 1 \/ cfg.WriteTimeoutSeconds > MaxAllowedTimeoutSeconds)
    /\ ~(cfg.IdleTimeoutSeconds < 1 \/ cfg.IdleTimeoutSeconds > MaxAllowedTimeoutSeconds)
    /\ ~(cfg.ShutdownTimeoutSeconds < 1
           \/ cfg.ShutdownTimeoutSeconds > MaxAllowedShutdownTimeoutSeconds)
    /\ ~(cfg.CacheTTLMinutes < 1 \/ cfg.CacheTTLMinutes > MaxAllowedCacheTTL)
    /\ cfg.Directory # ""
    /\ osStat(cfg.Directory)

\* config.go lines 235-254.
GetDefaultConfig(env) ==
    [Host |-> DefaultServerHost,
     Port |-> DefaultServerPort,
     MaxRangeSize |-> DefaultMaxRangeSize,
     ReadTimeoutSeconds |-> DefaultReadTimeoutSeconds,
     WriteTimeoutSeconds |-> DefaultWriteTimeoutSeconds,
     IdleTimeoutSeconds |-> DefaultIdleTimeoutSeconds,
     ShutdownTimeoutSeconds |-> DefaultShutdownTimeoutSeconds,
     Directory |-> determineDefaultMusicDirectory(env),
     CacheTTLMinutes |-> DefaultCacheTTLMinutes]

\* The nil *Config that Load returns with an error.
NilConfig == <<>>

\* config.go lines 54-78; fileCfg is what json.Unmarshal gives for the file,
\* a field the file does not name being zero or empty; ok is a nil error.
Load(hasFile, fileCfg, env) ==
    LET cfg == applyEnvOverrides(
                   IF hasFile THEN ensureDefaults(fileCfg, env) ELSE GetDefaultConfig(env),
                   env)
    IN  IF validateConfig(cfg) THEN [ok |-> TRUE, cfg |-> cfg]
        ELSE [ok |-> FALSE, cfg |-> NilConfig]

\* ------------------------------------------- configuration files, environments
IntSettings == {"Port", "MaxRangeSize", "ReadTimeoutSeconds", "WriteTimeoutSeconds",
                "IdleTimeoutSeconds", "ShutdownTimeoutSeconds", "CacheTTLMinutes"}
StringSettings == {"Host", "Directory"}

\* A configuration file that names no setting.
EmptyConfig ==
    [Host |-> "", Port |-> 0, MaxRangeSize |-> 0, ReadTimeoutSeconds |-> 0,
     WriteTimeoutSeconds |-> 0, IdleTimeoutSeconds |-> 0, ShutdownTimeoutSeconds |-> 0,
     Directory |-> "", CacheTTLMinutes |-> 0]

\* Values a file gives a numeric setting.
FileValues == {-3, 10, 2000, 70000, 600000000}

\* Files that name one setting.
FileConfigs ==
    {EmptyConfig}
        \cup {[EmptyConfig EXCEPT ![k] = v] : k \in IntSettings, v \in FileValues}
        \cup {[EmptyConfig EXCEPT !.Host = "127.0.0.1"],
              [EmptyConfig EXCEPT !.Directory = FileMusic],
              [EmptyConfig EXCEPT !.Directory = MissingMusic]}

\* An environment with no ZERO_MUSIC_ variable set.
NoEnv ==
    [Host |-> "", Port |-> <<>>, MaxRangeSize |-> <<>>, ReadTimeoutSeconds |-> <<>>,
     WriteTimeoutSeconds |-> <<>>, IdleTimeoutSeconds |-> <<>>,
     ShutdownTimeoutSeconds |-> <<>>, Directory |-> "", CacheTTLMinutes |-> <<>>]

\* Raw values of a numeric variable: in range for every setting, in range for
\* some, out of range, and not integers.
EnvRaws == {<<"3", "0">>, <<"9", "0", "9", "0">>, <<"0">>, <<"-", "5">>,
            <<"6", "0", "0", "0", "0", "0", "0", "0", "0">>, <<"+", "3", "0">>,
            <<"0", "0", "7">>, <<"a", "b", "c">>, <<" ", "3", "0">>,
            <<"3", "0", ".", "5">>, <<"+">>}

\* Environments that set one variable.
Envs ==
    {NoEnv}
        \cup {[NoEnv EXCEPT ![k] = raw] : k \in IntSettings, raw \in EnvRaws}
        \cup {[NoEnv EXCEPT !.Host = "10.0.0.1"], [NoEnv EXCEPT !.Directory = EnvMusic]}

\* config.Load(configPath) is called, once, when the program starts.
CallLoad(hasFile, fileCfg, env) ==
    /\ ~loaded.called
    /\ hasFile \/ fileCfg = EmptyConfig
    /\ loaded' = [called |-> TRUE, hasFile |-> hasFile, file |-> fileCfg, env |-> env,
                  result |-> Load(hasFile, fileCfg, env)]
    /\ UNCHANGED <<scannerVars, songVars, catalogVars, repoVars>>

NextConfig ==
    \E hasFile \in BOOLEAN : \E fileCfg \in FileConfigs : \E env \in Envs :
        CallLoad(hasFile, fileCfg, env)

SpecConfig == Init /\ [][NextConfig]_vars

\* ==================================================== package repository
\* The rows of table users (interfaces.go lines 214-222) are fixed: two users;
\* MissingUser is an id that no row has.
Users == {1, 2}
MissingUser == 3
UserIDs == Users \cup {MissingUser}
SongIDs == {"s1", "s2", "s3"}

\* ------------------------------------------------ SQLiteFavoriteRepository
FavoriteSongs == {"s1", "s2"}

\* INSERT without OR IGNORE and without the UNIQUE(user_id, song_id)
\* constraint: a second row for the pair.
FavoriteInsertAlways(rows, seq, userID, songID) ==
    IF userID \notin Users THEN [err |-> TRUE, rows |-> rows, seq |-> seq]
    ELSE [err |-> FALSE,
          rows |-> rows \cup {[id |-> seq + 1, user_id |-> userID, song_id |-> songID]},
          seq |-> seq + 1]

\* INSERT OR IGNORE INTO favorites (user_id, song_id) VALUES (?, ?) under
\* UNIQUE(user_id, song_id), the foreign key on users(id) and AUTOINCREMENT:
\* a row for the pair makes it a no-op, a missing user an error.
FavoriteInsertOrIgnore(rows, seq, userID, songID) ==
    IF \E r \in rows : r.user_id = userID /\ r.song_id = songID
    THEN [err |-> FALSE, rows |-> rows, seq |-> seq]
    ELSE IF userID \notin Users THEN [err |-> TRUE, rows |-> rows, seq |-> seq]
    ELSE [err |-> FALSE,
          rows |-> rows \cup {[id |-> seq + 1, user_id |-> userID, song_id |-> songID]},
          seq |-> seq + 1]

\* SQLiteFavoriteRepository.Add
FavoriteAdd(userID, songID) ==
    LET res == FavoriteInsertOrIgnore(favorites, favoriteSeq, userID, songID)
    IN  /\ res.seq <= MaxFavoriteID
        /\ favorites' = res.rows
        /\ favoriteSeq' = res.seq
        /\ favoriteLast' =
              IF res.err THEN favoriteLast
              ELSE [favoriteLast EXCEPT ![<<userID, songID>>] = "Add"]
        /\ favoriteRet' = [op |-> "Add", user |-> userID, song |-> songID,
                           err |-> res.err, value |-> 0,
                           had |-> \E r \in favorites :
                                       r.user_id = userID /\ r.song_id = songID,
                           changed |-> res.rows # favorites]
        /\ UNCHANGED <<nonRepoVars, playVars, playlistVars>>

\* SQLiteFavoriteRepository.Remove: DELETE ... WHERE user_id = ? AND song_id = ?
FavoriteRemove(userID, songID) ==
    /\ favorites' = {r \in favorites : ~(r.user_id = userID /\ r.song_id = songID)}
    /\ favoriteLast' = [favoriteLast EXCEPT ![<<userID, songID>>] = "Remove"]
    /\ favoriteRet' = [op |-> "Remove", user |-> userID, song |-> songID,
                       err |-> FALSE, value |-> 0,
                       had |-> \E r \in favorites :
                                   r.user_id = userID /\ r.song_id = songID,
                       changed |-> favorites' # favorites]
    /\ UNCHANGED <<nonRepoVars, playVars, playlistVars, favoriteSeq>>

\* SELECT COUNT(*) FROM favorites WHERE user_id = ? AND song_id = ?; count > 0
IsFavorite(rows, userID, songID) ==
    Cardinality({r \in rows : r.user_id = userID /\ r.song_id = songID}) > 0

\* SELECT COUNT(*) FROM favorites WHERE user_id = ?
FavoriteCountOf(rows, userID) == Cardinality({r \in rows : r.user_id = userID})

\* SQLiteFavoriteRepository.IsFavorite
FavoriteIsFavorite(userID, songID) ==
    /\ favoriteRet' = [op |-> "IsFavorite", user |-> userID, song |-> songID,
                       err |-> FALSE,
                       value |-> IF IsFavorite(favorites, userID, songID) THEN 1 ELSE 0,
                       had |-> IsFavorite(favorites, userID, songID),
                       changed |-> FALSE]
    /\ UNCHANGED <<nonRepoVars, playVars, playlistVars,
                   favorites, favoriteSeq, favoriteLast>>

\* SQLiteFavoriteRepository.Count
FavoriteCount(userID) ==
    /\ favoriteRet' = [op |-> "Count", user |-> userID, song |-> "",
                       err |-> FALSE, value |-> FavoriteCountOf(favorites, userID),
                       had |-> FALSE, changed |-> FALSE]
    /\ UNCHANGED <<nonRepoVars, playVars, playlistVars,
                   favorites, favoriteSeq, favoriteLast>>

NextFavorites ==
    \/ \E u \in UserIDs : \E s \in FavoriteSongs : FavoriteAdd(u, s)
    \/ \E u \in UserIDs : \E s \in FavoriteSongs : FavoriteRemove(u, s)
    \/ \E u \in UserIDs : \E s \in FavoriteSongs : FavoriteIsFavorite(u, s)
    \/ \E u \in UserIDs : FavoriteCount(u)

SpecFavorites == Init /\ [][NextFavorites]_vars

\* ----------------------------------------------- SQLitePlayStatsRepository
PlaySongs == {"s1", "s2"}
PlayDurations == {30, 200}

\* Where a RecordPlay can meet a failure of the database: nowhere, at Begin,
\* at the first Exec, at the second Exec, at Commit.
FailPoints == {"none", "begin", "history", "stats", "commit"}

\* INSERT INTO play_history (user_id, song_id, play_duration) VALUES (?, ?, ?)
\* with AUTOINCREMENT and the foreign key on users(id).
InsertPlayHistory(rows, seq, userID, songID, duration) ==
    IF userID \notin Users THEN [err |-> TRUE, rows |-> rows]
    ELSE [err |-> FALSE,
          rows |-> rows \cup {[id |-> seq + 1, user_id |-> userID, song_id |-> songID,
                                play_duration |-> duration]}]

\* INSERT INTO play_stats ... VALUES (?, ?, 1, ?, CURRENT_TIMESTAMP)
\* ON CONFLICT(user_id, song_id) DO UPDATE SET play_count = play_count + 1,
\* total_play_time = total_play_time + excluded.total_play_time
UpsertPlayStats(rows, userID, songID, duration) ==
    IF \E r \in rows : r.user_id = userID /\ r.song_id = songID
    THEN {IF r.user_id = userID /\ r.song_id = songID
          THEN [r EXCEPT !.play_count = @ + 1, !.total_play_time = @ + duration]
          ELSE r : r \in rows}
    ELSE rows \cup {[user_id |-> userID, song_id |-> songID, play_count |-> 1,
                     total_play_time |-> duration]}

\* RecordPlay with the two statements run on the database itself instead of
\* in a transaction: what a statement wrote stays when a later one fails.
RecordPlayNoTx(history, stats, seq, userID, songID, duration, failAt) ==
    LET ins == InsertPlayHistory(history, seq, userID, songID, duration)
    IN  IF failAt = "begin" THEN [err |-> TRUE, history |-> history, stats |-> stats]
        ELSE IF failAt = "history" \/ ins.err
        THEN [err |-> TRUE, history |-> history, stats |-> stats]
        ELSE IF failAt = "stats"
        THEN [err |-> TRUE, history |-> ins.rows, stats |-> stats]
        ELSE [err |-> failAt = "commit", history |-> ins.rows,
              stats |-> UpsertPlayStats(stats, userID, songID, duration)]

\* sqlite_play_stats.go lines 19-49: both statements in one transaction; every
\* return before Commit, and a failed Commit, rolls back what they wrote.
RecordPlayTx(history, stats, seq, userID, songID, duration, failAt) ==
    LET ins == InsertPlayHistory(history, seq, userID, songID, duration)
    IN  IF failAt = "begin" THEN [err |-> TRUE, history |-> history, stats |-> stats]
        ELSE IF failAt = "history" \/ ins.err
        THEN [err |-> TRUE, history |-> history, stats |-> stats]
        ELSE IF failAt = "stats"
        THEN [err |-> TRUE, history |-> history, stats |-> stats]
        ELSE IF failAt = "commit"
        THEN [err |-> TRUE, history |-> history, stats |-> stats]
        ELSE [err |-> FALSE, history |-> ins.rows,
              stats |-> UpsertPlayStats(stats, userID, songID, duration)]

\* SQLitePlayStatsRepository.RecordPlay
RecordPlay(userID, songID, duration, failAt) ==
    LET res == RecordPlayTx(playHistory, playStats, Cardinality(playHistory),
                            userID, songID, duration, failAt)
    IN  /\ Cardinality(res.history) <= MaxPlayID
        /\ playHistory' = res.history
        /\ playStats' = res.stats
        /\ playRet' = [op |-> "RecordPlay", user |-> userID, err |-> res.err,
                       failAt |-> failAt,
                       changed |-> res.history # playHistory \/ res.stats # playStats,
                       TotalPlays |-> 0, TotalPlayTime |-> 0, UniqueSongs |-> 0]
        /\ UNCHANGED <<nonRepoVars, favoriteVars, playlistVars>>

\* SUM(column) over rows, 0 for no rows (COALESCE(SUM(...), 0)).
RECURSIVE SumOf(_, _)
SumOf(rows, column) ==
    IF rows = {} THEN 0
    ELSE LET r == CHOOSE x \in rows : TRUE
         IN  r[column] + SumOf(rows \ {r}, column)

\* SQLitePlayStatsRepository.GetUserStats
GetUserStats(userID) ==
    LET mine == {r \in playStats : r.user_id = userID}
    IN  /\ playRet' = [op |-> "GetUserStats", user |-> userID, err |-> FALSE,
                       failAt |-> "none", changed |-> FALSE,
                       TotalPlays |-> SumOf(mine, "play_count"),
                       TotalPlayTime |-> SumOf(mine, "total_play_time"),
                       UniqueSongs |-> Cardinality({r.song_id : r \in mine})]
        /\ UNCHANGED <<nonRepoVars, favoriteVars, playlistVars,
                       playHistory, playStats>>

NextPlayStats ==
    \/ \E u \in UserIDs : \E s \in PlaySongs : \E d \in PlayDurations :
          \E failAt \in FailPoints : RecordPlay(u, s, d, failAt)
    \/ \E u \in UserIDs : GetUserStats(u)

SpecPlayStats == Init /\ [][NextPlayStats]_vars

\* ------------------------------------------------ SQLitePlaylistRepository
\* Playlist 1 is of user 1 and playlist 2 of user 2 (Create, lines 22-46);
\* MissingPlaylist is an id that no row of table playlists has.
MissingPlaylist == 3
PlaylistIDs == {1, 2, MissingPlaylist}

\* SELECT COALESCE(MAX(position), 0) FROM playlist_songs WHERE playlist_id = ?
MaxPositionOf(rows, playlistID) ==
    LET mine == {r.position : r \in {x \in rows : x.playlist_id = playlistID}}
    IN  IF mine = {} THEN 0 ELSE CHOOSE p \in mine : \A q \in mine : q <= p

\* INSERT OR IGNORE INTO playlist_songs (playlist_id, song_id, position)
\* VALUES (?, ?, ?) under UNIQUE(playlist_id, song_id) and the foreign key
\* on playlists(id).
InsertPlaylistSong(rows, lists, playlistID, songID, position) ==
    IF \E r \in rows : r.playlist_id = playlistID /\ r.song_id = songID
    THEN [err |-> FALSE, rows |-> rows]
    ELSE IF playlistID \notin {p.id : p \in lists} THEN [err |-> TRUE, rows |-> rows]
    ELSE [err |-> FALSE,
          rows |-> rows \cup {[playlist_id |-> playlistID, song_id |-> songID,
                                position |-> position]}]

\* AddSong that puts every song at position 1 instead of after the last one.
AddSongAtFront(rows, lists, playlistID, songID) ==
    InsertPlaylistSong(rows, lists, playlistID, songID, 1)

\* sqlite_playlist.go lines 110-128 run without another call in between.
AddSong(rows, lists, playlistID, songID) ==
    InsertPlaylistSong(rows, lists, playlistID, songID,
                       MaxPositionOf(rows, playlistID) + 1)

\* DELETE FROM playlist_songs WHERE playlist_id = ? AND song_id = ?
RemoveSong(rows, playlistID, songID) ==
    {r \in rows : ~(r.playlist_id = playlistID /\ r.song_id = songID)}

\* The song lists that SELECT song_id ... WHERE playlist_id = ? ORDER BY
\* position can return: rows of equal position come in either order.
SongOrders(rows, playlistID) ==
    LET mine == {r \in rows : r.playlist_id = playlistID}
        n == Cardinality(mine)
        pos(s) == (CHOOSE r \in mine : r.song_id = s).position
    IN  {q \in [1..n -> {r.song_id : r \in mine}] :
            /\ \A i, j \in 1..n : i # j => q[i] # q[j]
            /\ \A i, j \in 1..n : i < j => pos(q[i]) <= pos(q[j])}

\* UPDATE playlist_songs SET position = ? WHERE playlist_id = ? AND song_id = ?
\* for the first n entries of songIDs, entry i getting position i.
RECURSIVE ApplyPositions(_, _, _, _)
ApplyPositions(rows, playlistID, songIDs, n) ==
    IF n = 0 THEN rows
    ELSE LET before == ApplyPositions(rows, playlistID, songIDs, n - 1)
         IN  {IF r.playlist_id = playlistID /\ r.song_id = songIDs[n]
              THEN [r EXCEPT !.position = n] ELSE r : r \in before}

\* How a ReorderSongs call can meet a failure of the database: 0 nowhere,
\* i > 0 at its i-th UPDATE, AtBegin, AtCommit.
AtBegin == 0 - 1
AtCommit == 0 - 2
ReorderFailPoints == {0, 2, AtBegin, AtCommit}

\* ReorderSongs with the UPDATEs run on the database itself instead of in a
\* transaction: the UPDATEs before a failing one stay.
ReorderSongsNoTx(rows, playlistID, songIDs, failAt) ==
    IF failAt = AtBegin THEN [err |-> TRUE, rows |-> rows]
    ELSE IF failAt > 0 /\ failAt <= Len(songIDs)
    THEN [err |-> TRUE, rows |-> ApplyPositions(rows, playlistID, songIDs, failAt - 1)]
    ELSE [err |-> failAt = AtCommit,
          rows |-> ApplyPositions(rows, playlistID, songIDs, Len(songIDs))]

\* sqlite_playlist.go lines 168-190: the UPDATEs in one transaction; a return
\* before Commit, and a failed Commit, rolls them back.
ReorderSongsTx(rows, playlistID, songIDs, failAt) ==
    IF failAt = AtBegin THEN [err |-> TRUE, rows |-> rows]
    ELSE IF failAt > 0 /\ failAt <= Len(songIDs) THEN [err |-> TRUE, rows |-> rows]
    ELSE IF failAt = AtCommit THEN [err |-> TRUE, rows |-> rows]
    ELSE [err |-> FALSE,
          rows |-> ApplyPositions(rows, playlistID, songIDs, Len(songIDs))]

\* SELECT user_id FROM playlists WHERE id = ?; err is sql.ErrNoRows.
IsOwner(lists, playlistID, userID) ==
    IF \E p \in lists : p.id = playlistID
    THEN [err |-> FALSE, isOwner |-> (CHOOSE p \in lists : p.id = playlistID).user_id = userID]
    ELSE [err |-> TRUE, isOwner |-> FALSE]

\* The lists a caller passes to ReorderSongs: every list without repetition,
\* shorter lists and lists of songs that are not in the playlist included.
ReorderLists ==
    UNION {{q \in [1..n -> SongIDs] : \A i, j \in 1..n : i # j => q[i] # q[j]} : n \in 0..3}

\* The order in which the songs of a playlist were added, a removed song
\* leaving it (history).
RECURSIVE Without(_, _)
Without(q, s) ==
    IF q = <<>> THEN <<>>
    ELSE IF Head(q) = s THEN Without(Tail(q), s)
    ELSE <<Head(q)>> \o Without(Tail(q), s)

Has(rows, playlistID, songID) ==
    \E r \in rows : r.playlist_id = playlistID /\ r.song_id = songID

\* SQLitePlaylistRepository.AddSong, from its SELECT to its return.
PlaylistAddSong(playlistID, songID) ==
    LET res == AddSong(playlistSongs, playlists, playlistID, songID)
    IN  /\ MaxPositionOf(res.rows, playlistID) <= MaxPosition
        /\ playlistSongs' = res.rows
        /\ addOrder' =
              IF res.rows # playlistSongs
              THEN [addOrder EXCEPT ![playlistID] = Append(@, songID)]
              ELSE addOrder
        /\ playlistRet' = [op |-> "AddSong", playlist |-> playlistID, err |-> res.err,
                           had |-> Has(playlistSongs, playlistID, songID),
                           changed |-> res.rows # playlistSongs]
        /\ UNCHANGED <<nonRepoVars, favoriteVars, playVars, playlists, adding>>

\* SQLitePlaylistRepository.RemoveSong
PlaylistRemoveSong(playlistID, songID) ==
    /\ playlistSongs' = RemoveSong(playlistSongs, playlistID, songID)
    /\ addOrder' = [addOrder EXCEPT ![playlistID] = Without(@, songID)]
    /\ playlistRet' = [op |-> "RemoveSong", playlist |-> playlistID, err |-> FALSE,
                       had |-> Has(playlistSongs, playlistID, songID),
                       changed |-> playlistSongs' # playlistSongs]
    /\ UNCHANGED <<nonRepoVars, favoriteVars, playVars, playlists, adding>>

\* SQLitePlaylistRepository.GetSongs
PlaylistGetSongs(playlistID) ==
    /\ \E q \in SongOrders(playlistSongs, playlistID) :
          playlistRet' = [op |-> "GetSongs", playlist |-> playlistID, err |-> FALSE,
                          songs |-> q]
    /\ UNCHANGED <<nonRepoVars, favoriteVars, playVars, playlists, playlistSongs,
                   addOrder, adding>>

\* SQLitePlaylistRepository.ReorderSongs
PlaylistReorderSongs(playlistID, songIDs, failAt) ==
    LET res == ReorderSongsTx(playlistSongs, playlistID, songIDs, failAt)
    IN  /\ playlistSongs' = res.rows
        /\ playlistRet' = [op |-> "ReorderSongs", playlist |-> playlistID,
                           err |-> res.err, songIDs |-> songIDs,
                           ordersBefore |-> SongOrders(playlistSongs, playlistID),
                           changed |-> res.rows # playlistSongs]
        /\ UNCHANGED <<nonRepoVars, favoriteVars, playVars, playlists, addOrder, adding>>

\* Calls of AddSong, RemoveSong and GetSongs, one at a time.
NextPlaylistAddRemove ==
    \/ \E p \in PlaylistIDs : \E s \in SongIDs : PlaylistAddSong(p, s)
    \/ \E p \in PlaylistIDs : \E s \in SongIDs : PlaylistRemoveSong(p, s)
    \/ \E p \in PlaylistIDs : PlaylistGetSongs(p)

SpecPlaylistAddRemove == InitPlaylists /\ [][NextPlaylistAddRemove]_vars

\* Calls of all four methods, one at a time.
NextPlaylist ==
    \/ \E p \in {1, MissingPlaylist} : \E s \in SongIDs : PlaylistAddSong(p, s)
    \/ \E p \in {1, MissingPlaylist} : \E s \in SongIDs : PlaylistRemoveSong(p, s)
    \/ \E p \in {1, MissingPlaylist} : PlaylistGetSongs(p)
    \/ \E p \in {1, MissingPlaylist} : \E q \in ReorderLists : \E failAt \in ReorderFailPoints :
          PlaylistReorderSongs(p, q, failAt)

SpecPlaylist == InitPlaylists /\ [][NextPlaylist]_vars

\* AddSong, first half: the SELECT of lines 112-115, its result kept in maxPos.
AddSongSelect(c, playlistID, songID) ==
    /\ ~adding[c].busy
    /\ MaxPositionOf(playlistSongs, playlistID) + 1 <= MaxPosition
    /\ adding' = [adding EXCEPT ![c] =
                      [busy |-> TRUE, playlist |-> playlistID, song |-> songID,
                       maxPos |-> MaxPositionOf(playlistSongs, playlistID)]]
    /\ UNCHANGED <<nonRepoVars, favoriteVars, playVars, playlists, playlistSongs,
                   playlistRet, addOrder>>

\* AddSong, second half: the INSERT of lines 117-120 and the return.
AddSongInsert(c) ==
    /\ adding[c].busy
    /\ LET res == InsertPlaylistSong(playlistSongs, playlists, adding[c].playlist,
                                     adding[c].song, adding[c].maxPos + 1)
       IN  /\ playlistSongs' = res.rows
           /\ addOrder' =
                 IF res.rows # playlistSongs
                 THEN [addOrder EXCEPT ![adding[c].playlist] = Append(@, adding[c].song)]
                 ELSE addOrder
           /\ playlistRet' = [op |-> "AddSong", playlist |-> adding[c].playlist,
                              err |-> res.err,
                              had |-> Has(playlistSongs, adding[c].playlist, adding[c].song),
                              changed |-> res.rows # playlistSongs]
    /\ adding' = [adding EXCEPT ![c] = [busy |-> FALSE]]
    /\ UNCHANGED <<nonRepoVars, favoriteVars, playVars, playlists>>

\* The songs and the ReorderSongs lists of the concurrent calls.
RaceSongs == {"s1", "s2"}
RaceLists == {q \in ReorderLists : \A i \in 1..Len(q) : q[i] \in RaceSongs}

\* Two callers at once on playlist 1: the statements of their AddSong calls
\* interleave with each other and with the other methods; a ReorderSongs
\* transaction is one step.
NextPlaylistRace ==
    \/ \E c \in Callers : \E s \in RaceSongs : AddSongSelect(c, 1, s)
    \/ \E c \in Callers : AddSongInsert(c)
    \/ \E s \in RaceSongs : PlaylistRemoveSong(1, s)
    \/ PlaylistGetSongs(1)
    \/ \E q \in RaceLists : PlaylistReorderSongs(1, q, 0)

SpecPlaylistRace == InitPlaylists /\ [][NextPlaylistRace]_vars

\* ============================================ package handlers: UserHandler
\* The user id the JWTAuth middleware left in the context, NoUser when the
\* context has none.
NoUser == 0
ContextUsers == Users \cup {NoUser}

\* The :id parameter of a request path.
IDParams == {<<"1">>, <<"2">>, <<"3">>, <<"x">>}

\* The song of requests to playlists, and whether scanner.GetSongByID knows
\* the song of a request (the Scanner of these handlers is not part of src).
RequestSongs == {"s1"}
RequestLists == {q \in ReorderLists : \A i \in 1..Len(q) : q[i] \in RequestSongs}

\* checkPlaylistOwnership that only asks whether the playlist exists.
checkPlaylistExists(lists, playlistID, userID) ==
    IF IsOwner(lists, playlistID, userID).err THEN 404 ELSE 0

\* part_006 lines 83-94: the status it answers with, 0 when the check passes.
checkPlaylistOwnership(lists, playlistID, userID) ==
    IF IsOwner(lists, playlistID, userID).err THEN 404
    ELSE IF ~IsOwner(lists, playlistID, userID).isOwner THEN 403
    ELSE 0

\* The opening of every playlist handler (e.g. lines 463-478):
\* getUserIDOrAbort, strconv.ParseInt of the :id parameter,
\* checkPlaylistOwnership. The status it answers with, 0 when it passes.
PlaylistGate(lists, userID, idParam) ==
    IF userID = NoUser THEN 401
    ELSE IF ~Atoi(idParam).ok THEN 400
    ELSE checkPlaylistOwnership(lists, Atoi(idParam).value, userID)

NoData == [none |-> TRUE]

\* What a handler leaves behind: the tables and the response.
Outcome(status, lists, rows, data) ==
    [status |-> status, lists |-> lists, rows |-> rows, data |-> data]

\* UpdatePlaylist, part_006 lines 462-506.
UpdatePlaylist(lists, rows, userID, idParam, bodyOK, name) ==
    LET gate == PlaylistGate(lists, userID, idParam)
        id == Atoi(idParam).value
        updated == {IF p.id = id /\ name # "" THEN [p EXCEPT !.name = name] ELSE p : p \in lists}
    IN  IF gate # 0 THEN Outcome(gate, lists, rows, NoData)
        ELSE IF ~bodyOK THEN Outcome(400, lists, rows, NoData)
        ELSE Outcome(200, updated, rows, [playlist |-> CHOOSE p \in updated : p.id = id])

\* DeletePlaylist, part_006 lines 509-532; DELETE FROM playlists WHERE id = ?
\* takes the playlist's songs with it (ON DELETE CASCADE).
DeletePlaylist(lists, rows, userID, idParam) ==
    LET gate == PlaylistGate(lists, userID, idParam)
        id == Atoi(idParam).value
    IN  IF gate # 0 THEN Outcome(gate, lists, rows, NoData)
        ELSE Outcome(200, {p \in lists : p.id # id}, {r \in rows : r.playlist_id # id}, NoData)

\* AddSongToPlaylist, part_006 lines 535-570.
AddSongToPlaylist(lists, rows, userID, idParam, bodyOK, songID, known) ==
    LET gate == PlaylistGate(lists, userID, idParam)
        id == Atoi(idParam).value
        res == AddSong(rows, lists, id, songID)
    IN  IF gate # 0 THEN Outcome(gate, lists, rows, NoData)
        ELSE IF ~bodyOK THEN Outcome(400, lists, rows, NoData)
        ELSE IF ~known THEN Outcome(404, lists, rows, NoData)
        ELSE IF res.err THEN Outcome(500, lists, rows, NoData)
        ELSE Outcome(200, lists, res.rows, NoData)

\* RemoveSongFromPlaylist, part_006 lines 573-598.
RemoveSongFromPlaylist(lists, rows, userID, idParam, songID) ==
    LET gate == PlaylistGate(lists, userID, idParam)
        id == Atoi(idParam).value
    IN  IF gate # 0 THEN Outcome(gate, lists, rows, NoData)
        ELSE Outcome(200, lists, RemoveSong(rows, id, songID), NoData)

\* ReorderPlaylistSongs, part_006 lines 601-630.
ReorderPlaylistSongs(lists, rows, userID, idParam, bodyOK, songIDs, failAt) ==
    LET gate == PlaylistGate(lists, userID, idParam)
        id == Atoi(idParam).value
        res == ReorderSongsTx(rows, id, songIDs, failAt)
    IN  IF gate # 0 THEN Outcome(gate, lists, rows, NoData)
        ELSE IF ~bodyOK THEN Outcome(400, lists, rows, NoData)
        ELSE IF res.err THEN Outcome(500, lists, rows, NoData)
        ELSE Outcome(200, lists, res.rows, NoData)

\* GetPlaylist, part_006 lines 419-459, answering with the songs in order q.
GetPlaylist(lists, rows, userID, idParam, q) ==
    LET gate == PlaylistGate(lists, userID, idParam)
        id == Atoi(idParam).value
    IN  IF gate # 0 THEN Outcome(gate, lists, rows, NoData)
        ELSE Outcome(200, lists, rows,
                     [playlist |-> CHOOSE p \in lists : p.id = id, songs |-> q])

\* The owner of the playlist an :id parameter names, NoUser when it names none.
OwnerOf(lists, idParam) ==
    IF \E p \in lists : idParam = <<"1">> /\ p.id = 1 THEN (CHOOSE p \in lists : p.id = 1).user_id
    ELSE IF \E p \in lists : idParam = <<"2">> /\ p.id = 2
    THEN (CHOOSE p \in lists : p.id = 2).user_id
    ELSE NoUser

\* A request is served: the handler runs to its response.
Serve(handler, userID, idParam, out) ==
    /\ MaxPositionOf(out.rows, 1) <= MaxPosition
    /\ MaxPositionOf(out.rows, 2) <= MaxPosition
    /\ playlists' = out.lists
    /\ playlistSongs' = out.rows
    /\ playlistRet' = [op |-> "request", handler |-> handler, user |-> userID,
                       id |-> idParam, status |-> out.status, data |-> out.data,
                       ownerBefore |-> OwnerOf(playlists, idParam),
                       changed |-> out.lists # playlists \/ out.rows # playlistSongs]
    /\ UNCHANGED <<nonRepoVars, favoriteVars, playVars, addOrder, adding>>

ServeGetPlaylist(userID, idParam) ==
    \E q \in (IF Atoi(idParam).ok THEN SongOrders(playlistSongs, Atoi(idParam).value)
              ELSE {<<>>}) :
        Serve("GetPlaylist", userID, idParam,
              GetPlaylist(playlists, playlistSongs, userID, idParam, q))

ServeUpdatePlaylist(userID, idParam, bodyOK, name) ==
    Serve("UpdatePlaylist", userID, idParam,
          UpdatePlaylist(playlists, playlistSongs, userID, idParam, bodyOK, name))

ServeDeletePlaylist(userID, idParam) ==
    Serve("DeletePlaylist", userID, idParam,
          DeletePlaylist(playlists, playlistSongs, userID, idParam))

ServeAddSongToPlaylist(userID, idParam, bodyOK, songID, known) ==
    Serve("AddSongToPlaylist", userID, idParam,
          AddSongToPlaylist(playlists, playlistSongs, userID, idParam, bodyOK, songID, known))

ServeRemoveSongFromPlaylist(userID, idParam, songID) ==
    Serve("RemoveSongFromPlaylist", userID, idParam,
          RemoveSongFromPlaylist(playlists, playlistSongs, userID, idParam, songID))

ServeReorderPlaylistSongs(userID, idParam, bodyOK, songIDs, failAt) ==
    Serve("ReorderPlaylistSongs", userID, idParam,
          ReorderPlaylistSongs(playlists, playlistSongs, userID, idParam, bodyOK,
                               songIDs, failAt))

NextPlaylistRequests ==
    \E u \in ContextUsers : \E id \in IDParams :
        \/ ServeGetPlaylist(u, id)
        \/ \E bodyOK \in BOOLEAN : \E name \in {"", "b"} :
              ServeUpdatePlaylist(u, id, bodyOK, name)
        \/ ServeDeletePlaylist(u, id)
        \/ \E bodyOK \in BOOLEAN : \E s \in RequestSongs : \E known \in BOOLEAN :
              ServeAddSongToPlaylist(u, id, bodyOK, s, known)
        \/ \E s \in RequestSongs : ServeRemoveSongFromPlaylist(u, id, s)
        \/ \E bodyOK \in BOOLEAN : \E q \in RequestLists : \E failAt \in {0, AtCommit} :
              ServeReorderPlaylistSongs(u, id, bodyOK, q, failAt)

SpecPlaylistRequests == InitPlaylists /\ [][NextPlaylistRequests]_vars

\* ====================================================== package middleware
\* A value kept in a gin.Context under a key: its Go type and its value;
\* Absent is a key that was never set.
Absent == [type |-> "absent", value |-> ""]
EmptyContext == [user_id |-> Absent, username |-> Absent, role |-> Absent]

\* models/user.go lines 13-16.
RoleUser == [type |-> "models.Role", value |-> "user"]
RoleAdmin == [type |-> "models.Role", value |-> "admin"]

\* A JWT: the algorithm of its header, the key it was signed with, whether
\* its exp claim has passed, and its JWTClaims.
NoToken == [alg |-> "", key |-> "", expired |-> FALSE, user_id |-> "", username |-> "",
            role |-> ""]
Secret == "secret"
\* The algorithms whose Verify takes the []byte key the key function returns.
HMAC == {"HS256", "HS384", "HS512"}
Tokens ==
    {[alg |-> a, key |-> k, expired |-> e, user_id |-> u.user_id,
      username |-> u.username, role |-> u.role] :
        a \in {"HS256", "HS512", "none"}, k \in {Secret, "guess"}, e \in BOOLEAN,
        u \in {[user_id |-> "1", username |-> "alice", role |-> "user"],
               [user_id |-> "2", username |-> "root", role |-> "admin"]}}

\* The pieces of an Authorization header: words, single spaces, a token.
Word(text) == [text |-> text, token |-> NoToken]
Space == Word(" ")
Jwt(t) == [text |-> "jwt", token |-> t]
SomeToken == CHOOSE t \in Tokens : t.alg = "HS256" /\ t.key = Secret /\ ~t.expired
Headers ==
    {<<>>, <<Word("some-token")>>, <<Word("Bearer")>>, <<Word("Bearer"), Space>>,
     <<Word("Bearer"), Space, Word("invalid-token")>>,
     <<Word("Basic"), Space, Jwt(SomeToken)>>,
     <<Word("bearer"), Space, Jwt(SomeToken)>>,
     <<Word("Bearer"), Space, Space, Jwt(SomeToken)>>,
     <<Word("Bearer"), Jwt(SomeToken)>>}
        \cup {<<Word("Bearer"), Space, Jwt(t)>> : t \in Tokens}

\* The managers a middleware is built with: none (nil), or one with a secret.
NilManager == "nil"
Managers == {NilManager, Secret, "other"}

\* strings.SplitN(authHeader, " ", 2)
RECURSIVE FirstSpace(_, _)
FirstSpace(header, i) ==
    IF i > Len(header) THEN 0
    ELSE IF header[i] = Space THEN i
    ELSE FirstSpace(header, i + 1)

SplitN2(header) ==
    IF FirstSpace(header, 1) = 0 THEN <<header>>
    ELSE <<SubSeq(header, 1, FirstSpace(header, 1) - 1),
           SubSeq(header, FirstSpace(header, 1) + 1, Len(header))>>

\* parseTokenWithSecret with the signature left unverified.
parseTokenUnverified(tokenString, secret) ==
    IF Len(tokenString) = 1 /\ tokenString[1].text = "jwt"
       /\ ~tokenString[1].token.expired
    THEN [err |-> FALSE, claims |-> tokenString[1].token]
    ELSE [err |-> TRUE, claims |-> NoToken]

\* part_002 lines 492-506: jwt.ParseWithClaims, whose key function returns the
\* secret whatever the algorithm, accepts a well-formed token of an HMAC
\* algorithm that was signed with that secret and has not expired.
parseTokenWithSecret(tokenString, secret) ==
    IF Len(tokenString) = 1 /\ tokenString[1].text = "jwt"
       /\ tokenString[1].token.alg \in HMAC
       /\ tokenString[1].token.key = secret
       /\ ~tokenString[1].token.expired
    THEN [err |-> FALSE, claims |-> tokenString[1].token]
    ELSE [err |-> TRUE, claims |-> NoToken]

\* The c.Set calls of lines 551-553 and 573-575.
SetIdentity(ctx, claims) ==
    [ctx EXCEPT !.user_id = [type |-> "int64", value |-> claims.user_id],
                !.username = [type |-> "string", value |-> claims.username],
                !.role = [type |-> "models.Role", value |-> claims.role]]

\* What a middleware did with a request: the status it answered with (0 when
\* it wrote no response), whether it called c.Abort, whether it called
\* c.Next, and the context it left.
Did(status, aborted, next, ctx) ==
    [status |-> status, aborted |-> aborted, next |-> next, ctx |-> ctx]

\* JWTAuth, part_002 lines 509-559.
JWTAuth(manager, authHeader) ==
    LET parts == SplitN2(authHeader)
    IN  IF manager = NilManager THEN Did(500, TRUE, FALSE, EmptyContext)
        ELSE IF authHeader = <<>> THEN Did(401, TRUE, FALSE, EmptyContext)
        ELSE IF ~(Len(parts) = 2 /\ parts[1] = <<Word("Bearer")>>)
        THEN Did(401, TRUE, FALSE, EmptyContext)
        ELSE IF parseTokenWithSecret(parts[2], manager).err
        THEN Did(401, TRUE, FALSE, EmptyContext)
        ELSE Did(0, FALSE, TRUE,
                 SetIdentity(EmptyContext, parseTokenWithSecret(parts[2], manager).claims))

\* OptionalJWTAuth, part_002 lines 562-582.
OptionalJWTAuth(manager, authHeader) ==
    LET parts == SplitN2(authHeader)
    IN  IF authHeader = <<>> \/ manager = NilManager THEN Did(0, FALSE, TRUE, EmptyContext)
        ELSE IF Len(parts) = 2 /\ parts[1] = <<Word("Bearer")>>
                /\ ~parseTokenWithSecret(parts[2], manager).err
        THEN Did(0, FALSE, TRUE,
                 SetIdentity(EmptyContext, parseTokenWithSecret(parts[2], manager).claims))
        ELSE Did(0, FALSE, TRUE, EmptyContext)

\* AdminOnly that lets every request with a role pass.
AnyRole(ctx) ==
    IF ctx.role = Absent THEN Did(401, TRUE, FALSE, ctx)
    ELSE Did(0, FALSE, TRUE, ctx)

\* AdminOnly, part_002 lines 585-608; role is an interface value, equal to
\* models.RoleAdmin only with that type and that value.
AdminOnly(ctx) ==
    IF ctx.role = Absent THEN Did(401, TRUE, FALSE, ctx)
    ELSE IF ctx.role # RoleAdmin THEN Did(403, TRUE, FALSE, ctx)
    ELSE Did(0, FALSE, TRUE, ctx)

\* The contexts AdminOnly meets: those the two middlewares above leave, and
\* those with a role set by other code (TestAdminOnly_*, TestGetCurrentRole).
AdminContexts ==
    {OptionalJWTAuth(Secret, h).ctx : h \in Headers}
        \cup {[EmptyContext EXCEPT !.role = r] :
                r \in {RoleUser, RoleAdmin, [type |-> "string", value |-> "admin"],
                       [type |-> "string", value |-> "invalid-type"],
                       [type |-> "models.Role", value |-> ""]}}

ServeJWTAuth(manager, authHeader) ==
    /\ mw' = [middleware |-> "JWTAuth", manager |-> manager, header |-> authHeader,
              before |-> EmptyContext, did |-> JWTAuth(manager, authHeader)]
    /\ UNCHANGED <<scannerVars, songVars, catalogVars, loaded,
                   favoriteVars, playVars, playlistVars>>

ServeOptionalJWTAuth(manager, authHeader) ==
    /\ mw' = [middleware |-> "OptionalJWTAuth", manager |-> manager, header |-> authHeader,
              before |-> EmptyContext, did |-> OptionalJWTAuth(manager, authHeader)]
    /\ UNCHANGED <<scannerVars, songVars, catalogVars, loaded,
                   favoriteVars, playVars, playlistVars>>

ServeAdminOnly(ctx) ==
    /\ mw' = [middleware |-> "AdminOnly", manager |-> NilManager, header |-> <<>>,
              before |-> ctx, did |-> AdminOnly(ctx)]
    /\ UNCHANGED <<scannerVars, songVars, catalogVars, loaded,
                   favoriteVars, playVars, playlistVars>>

NextMiddleware ==
    \/ \E manager \in Managers : \E h \in Headers : ServeJWTAuth(manager, h)
    \/ \E manager \in Managers : \E h \in Headers : ServeOptionalJWTAuth(manager, h)
    \/ \E ctx \in AdminContexts : ServeAdminOnly(ctx)

SpecMiddleware == Init /\ [][NextMiddleware]_vars

\* ---------------------------------------------------------------- claims
Failures == {"notexist", "walk"}

ScanDone(c) == pc[c] = "done" /\ op[c] = "Scan"

\* The files a rebuild is to catalogue: the regular files under the root whose
\* lowercased extension is a supported format.
Supported(fs) == {p \in fs : ToLower(Ext(p)) \in SupportedFormats}

\* C1: when two callers request the catalog at once and both met a stale
\* cache, the directory walk is executed once: they never both walk.
C1_SingleWalk ==
    \A c \in Callers : \A d \in Callers \ {c} :
        (InFlight(c) /\ InFlight(d) /\ ~call[c].fresh /\ ~call[d].fresh)
            => ~(call[c].walked /\ call[d].walked)

\* C2: no reader sees a partly built catalog: once a rebuild has succeeded,
\* every GetSongs, also one made while a rebuild runs, returns the whole
\* catalog of the last successful rebuild.
C2_NoPartialCatalog ==
    [][\A c \in Callers :
          (GetSongs(c) /\ NonEmpty) => PathsOf(heap', ret'[c]) = lastGood]_vars

\* C3: a rebuild that fails leaves the catalog as it was: when a Scan made on
\* a populated catalog has returned an error, the count and the list the
\* accessors read are those of the catalog before it.
C3_FailedRebuildKeepsCatalog ==
    [][\A c \in Callers :
          (GetSongCount(c) /\ ScanDone(c) /\ err[c] \in Failures /\ NonEmpty)
              => (count'[c] = Len(lastGood) /\ PathsOf(heap, songs) = lastGood)]_vars

\* C4: a request made while the cache is fresh (within the TTL, root mtime
\* unchanged, catalog non-empty) walks no directory.
C4_FreshMeansNoWalk ==
    \A c \in Callers : (op[c] = "Scan" /\ call[c].fresh) => ~call[c].walked

\* C5: a request made when the TTL has elapsed since the last successful scan
\* never returns without a rebuild, also when the root's mtime is unchanged:
\* it has walked the directory, or the directory was missing and it returned
\* the error and no catalog.
C5_ExpiredMeansRebuild ==
    \A c \in Callers :
        (ScanDone(c) /\ call[c].expired)
            => (call[c].walked \/ (err[c] = "notexist" /\ ret[c] = <<>>))

C5_Witness ==
    \E c \in Callers :
        /\ ScanDone(c)
        /\ call[c].expired
        /\ ~call[c].newer
        /\ call[c].walked
        /\ err[c] = "ok"
        /\ ret[c] # <<>>

\* C6: a request made when the root's mtime is newer than the last scan saw,
\* the TTL not yet elapsed, never returns without a rebuild: it has walked the
\* directory, or the directory was missing and it returned the error.
C6_NewerMTimeMeansRebuild ==
    \A c \in Callers :
        (ScanDone(c) /\ call[c].newer /\ ~call[c].expired)
            => (call[c].walked \/ (err[c] = "notexist" /\ ret[c] = <<>>))

C6_Witness ==
    \E c \in Callers :
        /\ ScanDone(c)
        /\ call[c].newer
        /\ ~call[c].expired
        /\ call[c].walked
        /\ err[c] = "ok"
        /\ ret[c] # <<>>

\* C7: what a caller writes to an entry it was given never shows in what a
\* later accessor call returns: every entry GetSongs returns has the title
\* the scanner gave it.
C7_DefensiveCopy ==
    [][\A c \in Callers :
          GetSongs(c) =>
              \A i \in 1..Len(ret'[c]) :
                  heap'[ret'[c][i]].Title = TitleOf(heap'[ret'[c][i]].FilePath)]_vars

\* C8: a request fails with the directory-unavailable error only when a
\* rebuild was required: a request made on a fresh cache during an outage of
\* the directory returns no such error.
C8_FreshSurvivesOutage ==
    \A c \in Callers : (ScanDone(c) /\ err[c] = "notexist") => ~call[c].fresh

\* C9: reading the count or the list never rebuilds and never changes the
\* cached catalog, and what is read is the catalog left by the last
\* successful rebuild.
C9_AccessorsOnlyRead ==
    [][\A c \in Callers :
          /\ GetSongCount(c) =>
                (songs' = songs /\ ~InFlight(c)' /\ count'[c] = Len(lastGood))
          /\ GetSongs(c) =>
                (songs' = songs /\ ~InFlight(c)' /\ PathsOf(heap', ret'[c]) = lastGood)]_vars

\* C10: after a successful rebuild that nothing disturbed, the catalog holds
\* exactly one entry for every regular file under the root whose lowercased
\* extension is a supported format, and no other entry.
C10_CatalogIsSupportedFiles ==
    [][\A c \in Callers :
          (ScanReturn(c) /\ call[c].quiet)
              => /\ Range(PathsOf(heap', ret'[c])) = Supported(present)
                 /\ Len(ret'[c]) = Cardinality(Supported(present))]_vars

\* C11: one bad file cannot fail a scan: an undisturbed scan of a directory
\* that holds a corrupt audio file among valid ones returns no error and a
\* catalog with an entry for every valid audio file and none for the corrupt
\* one.
C11_BadFileIsOmitted ==
    [][\A c \in Callers :
          (ScanReturn(c) /\ call[c].quiet /\ corrupt # {})
              => /\ err'[c] = "ok"
                 /\ Range(PathsOf(heap', ret'[c])) =
                        {p \in present : IsMusicFile(p)} \ corrupt]_vars

\* C12: a Scan whose caller has cancelled visits no further file: its next
\* step ends the call with the cancelled condition, and the catalog of the
\* last successful Scan is still what the scanner holds.
C12_CancelStopsTheWalk ==
    [][\A c \in Callers :
          (call[c].cancelled /\ pc[c] = "walk" /\ <<pc[c], queue[c]>>' # <<pc[c], queue[c]>>)
              => /\ pc'[c] = "done"
                 /\ err'[c] = "cancelled"
                 /\ PathsOf(heap', songs') = lastGood]_vars

\* C13: the ids of the entries of one scan are pairwise distinct, one entry
\* for each path catalogued, also for files of the same base name in
\* different directories.
C13_IdsUniqueInScan ==
    todo = {} =>
        \A i, j \in 1..Len(catalog) :
            catalog[i].FilePath # catalog[j].FilePath => catalog[i].ID # catalog[j].ID

\* C14: a path is given the same id by every scan, in the same process or
\* after a restart, whatever the size of the file at the time.
C14_IdFunctionOfPath ==
    \A a, b \in idLog : a[1] = b[1] => a[3] = b[3]

C14_Witness ==
    /\ restarted
    /\ build = "user_playlist.go"
    /\ \E a, b \in idLog : a[1] = b[1] /\ a[2] # b[2] /\ a[3] = b[3]
    /\ \E i \in 1..Len(catalog) : catalog[i].FilePath = PathSubX

\* C15: every id of a catalog entry is 32 lowercase hexadecimal characters,
\* that is, it matches the pattern the callers validate ids with.
C15_IdsMatchPattern ==
    \A i \in 1..Len(catalog) : ValidIDRegexMatch(catalog[i].ID)

\* The ids a request must be refused for: empty, or not 32 characters of
\* 0-9a-f.
Malformed(id) ==
    \/ Len(id) # 32
    \/ \E i \in 1..Len(id) :
          id[i] \notin {"0", "1", "2", "3", "4", "5", "6", "7", "8", "9",
                        "a", "b", "c", "d", "e", "f"}

\* C16: a request with a malformed song id is answered 400 before the id is
\* used for a catalog lookup or a file is opened, by ValidateSongID and by
\* the streaming handler; a well-formed id passes ValidateSongID with no
\* response written.
C16_MalformedIdRejected ==
    [][\A id \in RequestIDs :
          /\ ValidateSongID(id) =>
                IF Malformed(id)
                THEN request'.status = 400 /\ ~request'.passed
                ELSE request'.status = 0 /\ request'.passed
          /\ \A scanFails, opens \in BOOLEAN :
                (StreamAudio(id, scanFails, opens) /\ Malformed(id))
                    => /\ request'.status = 400
                       /\ ~request'.lookedUp
                       /\ ~request'.opened]_vars

\* The file name of each path of the model, without its extension.
ExpectedTitle(p) ==
    CASE p = PathX -> <<"x">>
      [] p = PathSubX -> <<"x">>
      [] p = PathY -> <<"y">>
      [] p = PathZ -> <<"z">>

\* The tag of the file could be read.
TagRead == file.opens /\ file.tag.readable

\* C17: after UpdateMetadata each descriptive field of the entry is the tag's
\* value where the tag was read and gives a non-empty, non-zero value, and
\* the default elsewhere (title the file name without extension, artist and
\* album "Unknown", genre empty, year and track zero); the entry exists
\* whether or not the tag could be read.
C17_TagFieldsOverDefaults ==
    [][CallUpdateMetadata =>
          LET t == file.tag
          IN  /\ stage' = "updated"
              /\ song'.FilePath = song.FilePath
              /\ song'.Title = IF TagRead /\ t.Title # <<>> THEN t.Title
                                ELSE ExpectedTitle(song.FilePath)
              /\ song'.Artist = IF TagRead /\ t.Artist # <<>> THEN t.Artist ELSE Unknown
              /\ song'.Album = IF TagRead /\ t.Album # <<>> THEN t.Album ELSE Unknown
              /\ song'.Genre = IF TagRead /\ t.Genre # <<>> THEN t.Genre ELSE <<>>
              /\ song'.Year = IF TagRead /\ t.Year # 0 THEN t.Year ELSE 0
              /\ song'.Track = IF TagRead /\ t.Track # 0 THEN t.Track ELSE 0]_vars

C17_Witness ==
    /\ stage = "updated"
    /\ file.opens
    /\ file.tag = TitleTag
    /\ song.Title = <<"T">>
    /\ song.Year = 1999
    /\ song.Artist = Unknown
    /\ song.Track = 0

\* C18: the duration of an entry whose format is not MP3 is, once its
\* metadata has been read, the integer quotient of the file size by the
\* bytes-per-second constant of its format, and zero for a file of size zero.
C18_DurationFromSize ==
    [][(CallUpdateMetadata /\ song.Format # Mp3Format)
          => song'.Duration = estimateDuration(song)]_vars

\* str is n seconds written as M:SS below one hour and as H:MM:SS from one
\* hour on, and "0:00" for n zero or negative.
WellFormatted(n, str) ==
    LET C == {i \in 1..Len(str) : str[i] = ":"}
        first == CHOOSE i \in C : \A j \in C : i <= j
        last == CHOOSE i \in C : \A j \in C : j <= i
        head == SubSeq(str, 1, first - 1)
        middle == SubSeq(str, first + 1, last - 1)
        tail == SubSeq(str, last + 1, Len(str))
    IN  IF n <= 0 THEN str = ZeroDuration
        ELSE IF n < 3600
        THEN /\ Cardinality(C) = 1
             /\ IsDigits(head) /\ IsDigits(tail)
             /\ Len(tail) = 2
             /\ ParseNat(tail) < 60
             /\ 60 * ParseNat(head) + ParseNat(tail) = n
        ELSE /\ Cardinality(C) = 2
             /\ IsDigits(head) /\ IsDigits(middle) /\ IsDigits(tail)
             /\ Len(middle) = 2 /\ Len(tail) = 2
             /\ ParseNat(middle) < 60 /\ ParseNat(tail) < 60
             /\ 3600 * ParseNat(head) + 60 * ParseNat(middle) + ParseNat(tail) = n

\* C19: FormatDuration(s) is "0:00" for s zero or negative, M:SS below 3600
\* and H:MM:SS from 3600 on, the fields adding up to s seconds; and the
\* formatted duration of an entry is always its duration so formatted.
C19_FormatDurationShape ==
    [][/\ \A s \in Seconds : CallFormatDuration(s) => WellFormatted(s, fmtOut')
       /\ stage' # "none" => WellFormatted(song'.Duration, song'.DurationFormatted)]_vars

C19_Witness ==
    /\ fmtIn = 3661
    /\ fmtOut = <<"1", ":", "0", "1", ":", "0", "1">>
    /\ stage = "updated"
    /\ song.Duration = 3725
    /\ song.DurationFormatted = <<"1", ":", "0", "2", ":", "0", "5">>

\* The integers the raw environment values denote; a raw value outside this
\* table is not an integer.
EnvIntegers ==
    {<<(<<"3", "0">>), 30>>, <<(<<"9", "0", "9", "0">>), 9090>>, <<(<<"0">>), 0>>,
     <<(<<"-", "5">>), 0 - 5>>,
     <<(<<"6", "0", "0", "0", "0", "0", "0", "0", "0">>), 600000000>>,
     <<(<<"+", "3", "0">>), 30>>, <<(<<"0", "0", "7">>), 7>>}

\* The allowed range and the built-in default of each setting.
Highest(k) ==
    CASE k = "Port" -> 65535
      [] k = "MaxRangeSize" -> 524288000
      [] k = "ShutdownTimeoutSeconds" -> 300
      [] k = "CacheTTLMinutes" -> 1440
      [] OTHER -> 600

BuiltIn(k) ==
    CASE k = "Host" -> "0.0.0.0"
      [] k = "Directory" -> HomeMusic
      [] k = "Port" -> 8080
      [] k = "MaxRangeSize" -> 104857600
      [] k = "ReadTimeoutSeconds" -> 15
      [] k = "WriteTimeoutSeconds" -> 60
      [] k = "IdleTimeoutSeconds" -> 120
      [] k = "ShutdownTimeoutSeconds" -> 30
      [] k = "CacheTTLMinutes" -> 5

\* The environment value of setting k is set, well-formed and in range.
EnvUsable(k) ==
    IF k \in StringSettings THEN loaded.env[k] # ""
    ELSE \E p \in EnvIntegers : p[1] = loaded.env[k] /\ p[2] >= 1 /\ p[2] <= Highest(k)

EnvValue(k) ==
    IF k \in StringSettings THEN loaded.env[k]
    ELSE (CHOOSE p \in EnvIntegers : p[1] = loaded.env[k])[2]

\* The environment with every malformed or out-of-range variable unset.
UsableEnv ==
    [k \in DOMAIN loaded.env |->
        IF EnvUsable(k) THEN loaded.env[k]
        ELSE IF k \in StringSettings THEN "" ELSE <<>>]

\* The file gives setting k a value.
FileGives(k) ==
    /\ loaded.hasFile
    /\ IF k \in StringSettings THEN loaded.file[k] # "" ELSE loaded.file[k] # 0

\* The file gives setting k a value that the defaults do not replace: a
\* timeout or a cache lifetime that is positive, any other value that is given.
FileKeeps(k) ==
    /\ FileGives(k)
    /\ k \in {"ReadTimeoutSeconds", "WriteTimeoutSeconds", "IdleTimeoutSeconds",
              "ShutdownTimeoutSeconds", "CacheTTLMinutes"} => loaded.file[k] > 0

Settled(k) ==
    IF EnvUsable(k) THEN EnvValue(k)
    ELSE IF FileKeeps(k) THEN loaded.file[k]
    ELSE BuiltIn(k)

\* Every setting is in its documented range and the music directory exists.
AllInRange ==
    /\ \A k \in IntSettings : Settled(k) >= 1 /\ Settled(k) <= Highest(k)
    /\ Settled("Directory") \notin {"", MissingMusic}

C22_FavoritesAreASet ==
    /\ \A u \in UserIDs : \A s \in FavoriteSongs :
          IsFavorite(favorites, u, s) <=> favoriteLast[<<u, s>>] = "Add"
    /\ \A u \in UserIDs :
          FavoriteCountOf(favorites, u) =
              Cardinality({s \in FavoriteSongs : favoriteLast[<<u, s>>] = "Add"})
    /\ favoriteRet.op = "IsFavorite" =>
          (favoriteRet.value = 1 <=> favoriteLast[<<favoriteRet.user, favoriteRet.song>>] = "Add")
    /\ favoriteRet.op = "Count" =>
          favoriteRet.value =
              Cardinality({s \in FavoriteSongs : favoriteLast[<<favoriteRet.user, s>>] = "Add"})
    /\ (favoriteRet.op = "Add" /\ favoriteRet.had) =>
          ~favoriteRet.err /\ ~favoriteRet.changed

\* A song that is a favorite was added again, a removed song is no favorite.
C22_Witness ==
    /\ favoriteRet.op = "Add"
    /\ favoriteRet.had
    /\ favoriteRet.user = 1
    /\ FavoriteCountOf(favorites, 1) = 1
    /\ \E s \in FavoriteSongs : favoriteLast[<<1, s>>] = "Remove"


\* The history rows of a (user, song) pair and its statistics row, if any.
HistoryOf(u, s) == {r \in playHistory : r.user_id = u /\ r.song_id = s}

StatsOf(u, s) == {r \in playStats : r.user_id = u /\ r.song_id = s}

\* C23: after any sequence of RecordPlay calls, for every (user, song) pair
\* the stored play count equals the number of history rows of the pair and
\* the stored total play time equals the sum of their durations (no row where
\* there is no history); the totals GetUserStats returns are those of the
\* user's history; a RecordPlay that returned an error changed neither the
\* history nor the statistics.
C23_StatsMatchHistory ==
    /\ \A u \in UserIDs : \A s \in PlaySongs :
          /\ Cardinality(StatsOf(u, s)) = (IF HistoryOf(u, s) = {} THEN 0 ELSE 1)
          /\ \A r \in StatsOf(u, s) :
                /\ r.play_count = Cardinality(HistoryOf(u, s))
                /\ r.total_play_time = SumOf(HistoryOf(u, s), "play_duration")
    /\ playRet.op = "GetUserStats" =>
          LET mine == {r \in playHistory : r.user_id = playRet.user}
          IN  /\ playRet.TotalPlays = Cardinality(mine)
              /\ playRet.TotalPlayTime = SumOf(mine, "play_duration")
              /\ playRet.UniqueSongs = Cardinality({r.song_id : r \in mine})
    /\ (playRet.op = "RecordPlay" /\ playRet.err) => ~playRet.changed

\* A song was played twice and a later RecordPlay failed at its second
\* statement.
C23_Witness ==
    /\ playRet.op = "RecordPlay"
    /\ playRet.err
    /\ playRet.failAt = "stats"
    /\ \E r \in playStats : r.play_count = 2 /\ r.total_play_time = 230


IsPermutationOf(songIDs, rows, playlistID) ==
    /\ Len(songIDs) = Cardinality({r \in rows : r.playlist_id = playlistID})
    /\ {songIDs[i] : i \in 1..Len(songIDs)} =
          {r.song_id : r \in {x \in rows : x.playlist_id = playlistID}}
    /\ \A i, j \in 1..Len(songIDs) : i # j => songIDs[i] # songIDs[j]

\* C25: if ReorderSongs(playlist, L) succeeds and L is a permutation of the
\* songs in the playlist, L is the only order the next GetSongs can return;
\* if ReorderSongs returns an error, no row has changed and the orders
\* GetSongs can return are those of before the call.
C25_ReorderIsAllOrNothing ==
    playlistRet.op = "ReorderSongs" =>
        /\ (~playlistRet.err
              /\ IsPermutationOf(playlistRet.songIDs, playlistSongs, playlistRet.playlist)) =>
              SongOrders(playlistSongs, playlistRet.playlist) = {playlistRet.songIDs}
        /\ playlistRet.err =>
              /\ ~playlistRet.changed
              /\ SongOrders(playlistSongs, playlistRet.playlist) = playlistRet.ordersBefore

\* A playlist of three songs was reordered with a permutation that moved
\* every song, and the call returned no error.
C25_Witness ==
    /\ playlistRet.op = "ReorderSongs"
    /\ ~playlistRet.err
    /\ playlistRet.changed
    /\ playlistRet.songIDs = <<"s3", "s1", "s2">>
    /\ IsPermutationOf(playlistRet.songIDs, playlistSongs, 1)


\* C29: in every reachable state the songs of one playlist have pairwise
\* distinct positions, so that GetSongs can return only one order, after any
\* interleaving of AddSong, RemoveSong and ReorderSongs calls on the playlist.
C29_PositionsDistinct ==
    \A p \in PlaylistIDs :
        /\ \A r1, r2 \in playlistSongs :
              (r1.playlist_id = p /\ r2.playlist_id = p /\ r1.position = r2.position)
                  => r1 = r2
        /\ Cardinality(SongOrders(playlistSongs, p)) = 1


\* C28: every playlist operation that takes a playlist id (get, update,
\* delete, add song, remove song, reorder) reads or changes the playlist only
\* when the authenticated user is its owner; a request of any other
\* authenticated user is answered 403, or 404 when the playlist does not
\* exist, carries no data, and leaves the playlists and their songs unchanged.
C28_OnlyTheOwner ==
    playlistRet.op = "request" =>
        /\ (playlistRet.status = 200 \/ playlistRet.changed \/ playlistRet.data # NoData) =>
              (playlistRet.user # NoUser /\ playlistRet.user = playlistRet.ownerBefore)
        /\ (playlistRet.user # NoUser /\ playlistRet.id # <<"x">>
              /\ playlistRet.user # playlistRet.ownerBefore) =>
              /\ playlistRet.status = (IF playlistRet.ownerBefore = NoUser THEN 404 ELSE 403)
              /\ ~playlistRet.changed
              /\ playlistRet.data = NoData

\* User 2 asked to delete playlist 1 of user 1, which has a song, and was
\* answered 403.
C28_Witness ==
    /\ playlistRet.op = "request"
    /\ playlistRet.handler = "DeletePlaylist"
    /\ playlistRet.user = 2
    /\ playlistRet.id = <<"1">>
    /\ playlistRet.status = 403
    /\ \E r \in playlistSongs : r.playlist_id = 1


\* The header is "Bearer ", then a token that is valid under the manager's
\* secret: an HMAC signature made with that secret, not expired.
ValidBearer(manager, header) ==
    /\ manager # NilManager
    /\ Len(header) = 3
    /\ header[1].text = "Bearer"
    /\ header[2].text = " "
    /\ header[3].text = "jwt"
    /\ header[3].token.alg \in HMAC
    /\ header[3].token.key = manager
    /\ ~header[3].token.expired

\* C26: JWTAuth lets a request reach the next handler, with the user id, the
\* username and the role of the token in the context, only if the
\* Authorization header is 'Bearer <token>' with a token that is valid under
\* the manager's secret; a missing header, a malformed header or an invalid
\* token aborts the request with 401, a nil manager with 500, and an aborted
\* request has no user identity in its context.
C26_JWTAuthGate ==
    mw.middleware = "JWTAuth" =>
        /\ mw.did.next <=> ValidBearer(mw.manager, mw.header)
        /\ mw.did.next =>
              /\ ~mw.did.aborted
              /\ mw.did.status = 0
              /\ mw.did.ctx.user_id = [type |-> "int64", value |-> mw.header[3].token.user_id]
              /\ mw.did.ctx.username =
                    [type |-> "string", value |-> mw.header[3].token.username]
              /\ mw.did.ctx.role = [type |-> "models.Role", value |-> mw.header[3].token.role]
        /\ ~mw.did.next =>
              /\ mw.did.aborted
              /\ mw.did.status = (IF mw.manager = NilManager THEN 500 ELSE 401)
              /\ mw.did.ctx = EmptyContext

\* A token signed with another key was presented as a Bearer token and the
\* request was aborted with 401.
C26_Witness ==
    /\ mw.middleware = "JWTAuth"
    /\ mw.manager = Secret
    /\ Len(mw.header) = 3
    /\ mw.header[1].text = "Bearer"
    /\ mw.header[3].token.key = "guess"
    /\ mw.header[3].token.alg = "HS256"
    /\ ~mw.header[3].token.expired
    /\ mw.did.aborted
    /\ mw.did.status = 401

\* C27: AdminOnly lets a request reach the next handler only if the context
\* carries the admin role; a request whose context has no role is aborted
\* with 401 and a request with any other role is aborted with 403.
C27_AdminOnlyGate ==
    mw.middleware = "AdminOnly" =>
        /\ mw.did.next <=> (mw.before.role.type = "models.Role"
                              /\ mw.before.role.value = "admin")
        /\ mw.did.next => (~mw.did.aborted /\ mw.did.status = 0)
        /\ ~mw.did.next =>
              /\ mw.did.aborted
              /\ mw.did.status = (IF mw.before.role.type = "absent" THEN 401 ELSE 403)
        /\ mw.did.ctx = mw.before

\* A context with the role of an ordinary user was aborted with 403.
C27_Witness ==
    /\ mw.middleware = "AdminOnly"
    /\ mw.before.role = RoleUser
    /\ mw.did.aborted
    /\ mw.did.status = 403


TypeOK ==
    /\ build \in Builds
    /\ todo \subseteq SongPaths
    /\ request.status \in {0, 200, 400, 404, 500}
    /\ dirExists \in BOOLEAN
    /\ present \subseteq Files
    /\ corrupt \subseteq Fragile
    /\ DOMAIN heap \subseteq ObjIds
    /\ Range(songs) \subseteq DOMAIN heap
    /\ \A c \in Callers : Range(ret[c]) \subseteq DOMAIN heap
    /\ \A c \in Callers : pc[c] \in {"idle", "stat", "walk", "done"}
    /\ Cardinality(DOMAIN heap) < HeapSize

====
